---- MODULE Spec2Model ----
(***************************************************************************)
(* A model of libcbmimage (OpenCBM): block addressing, the reconstructed   *)
(* FAT, the BAM consistency check, chain following, file reading, the      *)
(* chdir frame stack and the validator.                                    *)
(*                                                                         *)
(* The library is single threaded.  Each group of operations is exercised  *)
(* by a caller of its own, so the module holds one specification per group *)
(* (SpecAddr, ...); the variables of the other groups stay at their idle   *)
(* values.                                                                 *)
(***************************************************************************)
EXTENDS Integers, Sequences, FiniteSets, TLC

VARIABLES
    settings,   \* image->settings: the active frame (cbmimage_image_settings)
    block,      \* the caller's cbmimage_blockaddress object
    ret,        \* the value the last call returned
    call,       \* the last call the caller made, with the block it was made on
    walk,       \* successful advances since init_from_ts_value(1, 0); -1: no walk
    fat,        \* the cbmimage_fat object (its entry array); <<>> is NULL
    written,    \* per block: what the caller last wrote to its FAT entry
    data,       \* parameter->buffer: the raw image, byte offset -> byte; the
                \* bytes outside its domain are 0
    out,        \* the diagnostics the last call printed
    chain,      \* the caller's cbmimage_chain object
    file,       \* the caller's cbmimage_file object (with the chain it owns)
    buffer,     \* the bytes the last read call wrote to the caller's buffer
    delivered,  \* all bytes the caller has read from the file so far
    visited,    \* the blocks that became the current block of the caller's
                \* chain since its start, in order
    next_settings, \* the frames below the active one (settings->next_settings
                \* and so on), the nearest first
    before,     \* per frame below the active one: the active frame as it
                \* was when the chdir that left it started
    entered,    \* per frame below the active one: the directory entry the
                \* chdir that left it was made with
    detector,   \* the caller's cbmimage_loop object
    marks,      \* the LBAs the caller has passed to cbmimage_loop_mark
    enumeration, \* the caller's directory entry (cbmimage_i_dir_entry_internal)
    slots,      \* the directory slots decoded since cbmimage_dir_get_first,
                \* in order, each as <<LBA of its block, offset in the block>>
    counting    \* the locals of the running cbmimage_get_blocks_free

callerVars == <<block, ret, call, walk>>

fatVars == <<fat, written>>

imageVars == <<data, out>>

fileVars == <<chain, file, buffer, delivered, visited>>

chdirVars == <<next_settings, before, entered>>

loopVars == <<detector, marks>>

dirVars == <<enumeration, slots>>

countVars == <<counting>>

vars == <<settings, block, ret, call, walk, fat, written, data, out,
          chain, file, buffer, delivered, visited, next_settings, before, entered,
          detector, marks, enumeration, slots, counting>>

(* What each specification leaves alone.                                   *)
addrIdle == <<fatVars, imageVars, fileVars, chdirVars, loopVars, dirVars, countVars>>

fatIdle == <<walk, imageVars, fileVars, chdirVars, loopVars, dirVars, countVars>>

bamIdle == <<block, walk, fatVars, fileVars, chdirVars, loopVars, dirVars, countVars>>

fileIdle == <<block, walk, fatVars, out, chdirVars, loopVars, dirVars, countVars>>

chdirIdle == <<block, walk, fatVars, fileVars, loopVars, dirVars, countVars>>

validateIdle == <<block, walk, written, fileVars, chdirVars, loopVars, dirVars, countVars>>

(* No chain and no file are open, and the caller has no loop detector and  *)
(* no directory entry.                                                     *)
NoChain == <<>>

NoDirEntry == <<>>

NotCounting == <<>>

NoLoop == <<>>

NoFile == <<>>

NoFileOpen ==
    /\ chain = NoChain
    /\ file = NoFile
    /\ buffer = <<>>
    /\ delivered = <<>>
    /\ visited = <<>>
    /\ detector = NoLoop
    /\ marks = {}
    /\ enumeration = NoDirEntry
    /\ slots = <<>>
    /\ counting = NotCounting

(* The image is in its root directory.                                     *)
NoChdir ==
    /\ next_settings = <<>>
    /\ before = <<>>
    /\ entered = <<>>

----------------------------------------------------------------------------
(* Helpers of the model (C integer arithmetic).                            *)

Min(a, b) == IF a < b THEN a ELSE b

U8(x) == x % 256

U16(x) == x % 65536

Rep(n, v) == [i \in 1..n |-> v]

(* The element of a one-element set.  Only({e(x) : x \in {v}}) is e(v) with *)
(* v computed once, where LET x == v IN e(x) computes v at each use of x.   *)
Only(S) == CHOOSE x \in S : TRUE

----------------------------------------------------------------------------
(* cbmimage.h: block addresses.                                            *)

CBMIMAGE_BLOCK_INIT(t, s, l) == [track |-> t, sector |-> s, lba |-> l]

cbmimage_block_unused == CBMIMAGE_BLOCK_INIT(0, 0, 0)

CBMIMAGE_TS_SET(b, t, s) == [b EXCEPT !.track = U8(t), !.sector = U8(s)]

----------------------------------------------------------------------------
(* The sectors-per-track tables; index = track, the C element 0 is 0.      *)

sectors_in_track_d40 == Rep(17, 21) \o Rep(7, 20) \o Rep(6, 18) \o Rep(5, 17)

sectors_in_track_d64 == Rep(17, 21) \o Rep(7, 19) \o Rep(6, 18) \o Rep(12, 17)

sectors_in_track_d71 ==
    Rep(17, 21) \o Rep(7, 19) \o Rep(6, 18) \o Rep(5, 17) \o
    Rep(17, 21) \o Rep(7, 19) \o Rep(6, 18) \o Rep(5, 17)

sectors_in_track_d82 ==
    Rep(39, 29) \o Rep(14, 27) \o Rep(11, 25) \o Rep(13, 23) \o
    Rep(39, 29) \o Rep(14, 27) \o Rep(11, 25) \o Rep(13, 23)

TableAt(tab, track) == IF track \in 1..Len(tab) THEN tab[track] ELSE 0

(* Sum of tab[lo..hi], split in halves to keep the evaluation shallow.      *)
RECURSIVE SumRange(_, _, _)
SumRange(tab, lo, hi) ==
    IF lo > hi THEN 0
    ELSE IF lo = hi THEN TableAt(tab, lo)
    ELSE LET mid == (lo + hi) \div 2
         IN  SumRange(tab, lo, mid) + SumRange(tab, mid + 1, hi)

(* calculate_track_lba_start_table: block_number starts at 1 and grows by  *)
(* sectors_in_track[track] after each track; element 0 stays 0 (zeroed     *)
(* allocation).                                                            *)
LbaStart(tab, track) ==
    IF track = 0 THEN 0 ELSE U16(1 + SumRange(tab, 1, track - 1))

cbmimage_i_d40_d64_d71_calculate_track_lba_start_table(tab, maxtracks) ==
    [track \in 0..maxtracks |-> LbaStart(tab, track)]

cbmimage_i_d80_d82_calculate_track_lba_start_table(tab, maxtracks) ==
    [track \in 0..maxtracks |-> LbaStart(tab, track)]

----------------------------------------------------------------------------
(* internal.h: cbmimage_image_settings.  A frame is one record; the model  *)
(* keeps the fields that addressing, chdir, the BAM and the validator use. *)
(* A function pointer of fct is the name of the function, "" is NULL.      *)
(* id stands for the address of the settings object; bam and bam_counter   *)
(* are the selector arrays in the anonymous union of this object, bam_ref  *)
(* and bam_counter_ref the pointers settings->bam and settings->           *)
(* bam_counter: the id of the object whose arrays they point to, 0 is NULL.*)
(* info is the block the info accessor is set to, fat the FAT pointer.     *)
(* sectors_in_track / track_lba_start are the storage of the anonymous     *)
(* union (internal.h 756): the d40_d64_d71 and the d80_d82 member overlay  *)
(* each other there (same pointer, same uint16_t elements, same offsets).  *)

NoFct ==
    [get_sectors_in_track |-> "", ts_to_blockaddress |-> "",
     lba_to_blockaddress |-> "", chdir |-> "", set_bam |-> ""]

d64_fileimage_functions ==
    [NoFct EXCEPT !.get_sectors_in_track = "d40_d64_d71",
                  !.ts_to_blockaddress = "d40_d64_d71",
                  !.lba_to_blockaddress = "d40_d64_d71"]

d71_fileimage_functions == [d64_fileimage_functions EXCEPT !.set_bam = "d71"]

d80_d82_fileimage_functions ==
    [NoFct EXCEPT !.get_sectors_in_track = "d80_d82",
                  !.ts_to_blockaddress = "d80_d82",
                  !.lba_to_blockaddress = "d80_d82"]

d81_fileimage_functions == [NoFct EXCEPT !.chdir = "d81", !.set_bam = "d81"]

d1m_d2m_d4m_fileimage_functions ==
    [NoFct EXCEPT !.chdir = "d1m_d2m_d4m", !.set_bam = "d1m_d2m_d4m"]

dnp_fileimage_functions == [NoFct EXCEPT !.chdir = "dnp", !.set_bam = "dnp"]

(* The settings as cbmimage_i_fileimage_create() allocates them: zeroed.   *)
ZeroSettings ==
    [imagetype |-> "", fct |-> NoFct,
     maxtracks |-> 0, maxsectors |-> 0,
     sectors_in_track |-> <<>>, track_lba_start |-> [track \in 0..0 |-> 0],
     dir_tracks |-> <<0, 0>>, bam_count |-> 0, bam |-> <<>>, bam_counter |-> <<>>,
     lastblock |-> cbmimage_block_unused,
     info |-> cbmimage_block_unused, dir |-> cbmimage_block_unused,
     is_partition_table |-> 0,
     subdir_relative_addressing |-> 0, subdir_global_addressing |-> 0,
     block_subdir_first |-> cbmimage_block_unused,
     block_subdir_last |-> cbmimage_block_unused,
     subdir_data_offset |-> 0,
     geos_border |-> cbmimage_block_unused,
     id |-> 1, bam_ref |-> 0, bam_counter_ref |-> 0, fat |-> 0]

----------------------------------------------------------------------------
(* getters.c                                                               *)

cbmimage_get_max_track(s) == s.maxtracks

cbmimage_get_max_sectors(s) == s.maxsectors

cbmimage_get_max_lba(s) == s.lastblock.lba

cbmimage_i_d40_d64_d71_get_sectors_in_track(s, track) ==
    IF track <= s.maxtracks THEN TableAt(s.sectors_in_track, track) ELSE 0

cbmimage_i_d80_d82_get_sectors_in_track(s, track) ==
    IF track <= s.maxtracks THEN TableAt(s.sectors_in_track, track) ELSE 0

cbmimage_get_sectors_in_track(s, track) ==
    IF s.fct.get_sectors_in_track = "d40_d64_d71"
    THEN cbmimage_i_d40_d64_d71_get_sectors_in_track(s, track)
    ELSE IF s.fct.get_sectors_in_track = "d80_d82"
    THEN cbmimage_i_d80_d82_get_sectors_in_track(s, track)
    ELSE s.maxsectors

----------------------------------------------------------------------------
(* blockaddress.c and the table-driven conversions of d40_d64_d71.c and    *)
(* d80_d82.c.  A conversion yields [ret, block].                           *)

cbmimage_blockaddress_ts_exists(s, track, sector) ==
    /\ track > 0
    /\ track <= cbmimage_get_max_track(s)
    /\ sector < cbmimage_get_max_sectors(s)
    /\ sector < cbmimage_get_sectors_in_track(s, track)

cbmimage_blockaddress_lba_exists(s, lba) ==
    /\ lba > 0
    /\ lba <= cbmimage_get_max_lba(s)

cbmimage_i_generic_ts_to_blockaddress(s, b) ==
    IF ~cbmimage_blockaddress_ts_exists(s, b.track, b.sector)
    THEN [ret |-> 1, block |-> [b EXCEPT !.lba = 0]]
    ELSE [ret |-> 0,
          block |-> [b EXCEPT !.lba = U16((b.track - 1) * s.maxsectors + b.sector + 1)]]

TrackLbaStart(s, track) ==
    IF track \in DOMAIN s.track_lba_start THEN s.track_lba_start[track] ELSE 0

cbmimage_i_d40_d64_d71_ts_to_blockaddress(s, b) ==
    IF b.track = 0 \/ b.track > s.maxtracks
    THEN [ret |-> 1, block |-> b]
    ELSE [ret |-> 0,
          block |-> [b EXCEPT !.lba = U16(TrackLbaStart(s, b.track) + b.sector)]]

cbmimage_i_d80_d82_ts_to_blockaddress(s, b) ==
    IF b.track = 0 \/ b.track > s.maxtracks
    THEN [ret |-> 1, block |-> b]
    ELSE [ret |-> 0,
          block |-> [b EXCEPT !.lba = U16(TrackLbaStart(s, b.track) + b.sector)]]

cbmimage_blockaddress_init_from_ts(s, b) ==
    IF s.fct.ts_to_blockaddress = "d40_d64_d71"
    THEN cbmimage_i_d40_d64_d71_ts_to_blockaddress(s, b)
    ELSE IF s.fct.ts_to_blockaddress = "d80_d82"
    THEN cbmimage_i_d80_d82_ts_to_blockaddress(s, b)
    ELSE cbmimage_i_generic_ts_to_blockaddress(s, b)

CBMIMAGE_BLOCK_SET_FROM_TS(s, b, t, sec) ==
    cbmimage_blockaddress_init_from_ts(s, CBMIMAGE_TS_SET(b, t, sec)).block

cbmimage_i_generic_lba_to_blockaddress(s, b) ==
    IF b.lba = 0
    THEN [ret |-> 1, block |-> b]
    ELSE LET track  == U16(((b.lba - 1) \div s.maxsectors) + 1)
             sector == U16((b.lba - 1) - (track - 1) * s.maxsectors)
         IN  IF track > s.maxtracks \/ sector >= s.maxsectors
             THEN [ret |-> 1, block |-> CBMIMAGE_TS_SET(b, 0, 0)]
             ELSE [ret |-> 0, block |-> CBMIMAGE_TS_SET(b, track, sector)]

(* The for loop of the table-driven lba_to_blockaddress: the first track   *)
(* in lo..hi whose start LBA is above lba, hi + 1 if there is none         *)
(* (searched in halves, in ascending order).                               *)
RECURSIVE FirstTrackAbove(_, _, _, _)
FirstTrackAbove(s, lba, lo, hi) ==
    IF lo > hi THEN lo
    ELSE IF lo = hi THEN (IF TrackLbaStart(s, lo) > lba THEN lo ELSE lo + 1)
    ELSE LET mid == (lo + hi) \div 2
             l   == FirstTrackAbove(s, lba, lo, mid)
         IN  IF l <= mid THEN l ELSE FirstTrackAbove(s, lba, mid + 1, hi)

(* Variant of the conversion below that omits the --track after the loop.  *)
lba_to_blockaddress_without_decrement(s, b) ==
    LET track  == FirstTrackAbove(s, b.lba, 1, s.maxtracks)
        sector == U16(b.lba - TrackLbaStart(s, track))
    IN  IF sector > TableAt(s.sectors_in_track, track)
        THEN [ret |-> 1, block |-> CBMIMAGE_TS_SET(b, 0, 0)]
        ELSE [ret |-> 0, block |-> CBMIMAGE_TS_SET(b, track, sector)]

cbmimage_i_d40_d64_d71_lba_to_blockaddress(s, b) ==
    LET track  == FirstTrackAbove(s, b.lba, 1, s.maxtracks) - 1
        sector == U16(b.lba - TrackLbaStart(s, track))
    IN  IF sector > TableAt(s.sectors_in_track, track)
        THEN [ret |-> 1, block |-> CBMIMAGE_TS_SET(b, 0, 0)]
        ELSE [ret |-> 0, block |-> CBMIMAGE_TS_SET(b, track, sector)]

cbmimage_i_d80_d82_lba_to_blockaddress(s, b) ==
    LET track  == FirstTrackAbove(s, b.lba, 1, s.maxtracks) - 1
        sector == U16(b.lba - TrackLbaStart(s, track))
    IN  IF sector > TableAt(s.sectors_in_track, track)
        THEN [ret |-> 1, block |-> CBMIMAGE_TS_SET(b, 0, 0)]
        ELSE [ret |-> 0, block |-> CBMIMAGE_TS_SET(b, track, sector)]

cbmimage_blockaddress_init_from_lba(s, b) ==
    IF s.fct.lba_to_blockaddress = "d40_d64_d71"
    THEN cbmimage_i_d40_d64_d71_lba_to_blockaddress(s, b)
    ELSE IF s.fct.lba_to_blockaddress = "d80_d82"
    THEN cbmimage_i_d80_d82_lba_to_blockaddress(s, b)
    ELSE cbmimage_i_generic_lba_to_blockaddress(s, b)

cbmimage_blockaddress_init_from_ts_value(s, b, track, sector) ==
    cbmimage_blockaddress_init_from_ts(s, CBMIMAGE_TS_SET(b, track, sector))

cbmimage_blockaddress_init_from_lba_value(s, b, lba) ==
    cbmimage_blockaddress_init_from_lba(s, [b EXCEPT !.lba = U16(lba)])

CBMIMAGE_BLOCK_SET_FROM_LBA(s, b, lba) ==
    cbmimage_blockaddress_init_from_lba(s, [b EXCEPT !.lba = U16(lba)]).block

(* Variant of the advance below that tests ++sector > sector_count.        *)
advance_with_late_track_change(s, b, do_not_advance_in_track) ==
    LET sector_count == cbmimage_get_sectors_in_track(s, b.track)
        maxtrack     == cbmimage_get_max_track(s)
        fail         == [ret |-> -1, block |-> b]
    IN  IF ~cbmimage_blockaddress_lba_exists(s, b.lba) THEN fail
        ELSE IF /\ s.subdir_relative_addressing # 0
                /\ (b.lba + s.block_subdir_first.lba - 1) >= cbmimage_get_max_lba(s)
        THEN fail
        ELSE IF b.sector + 1 > sector_count
        THEN IF do_not_advance_in_track # 0 THEN fail
             ELSE IF b.track + 1 > maxtrack THEN fail
             ELSE [ret |-> 0,
                   block |-> [CBMIMAGE_TS_SET(b, b.track + 1, 0) EXCEPT !.lba = U16(b.lba + 1)]]
        ELSE [ret |-> 0,
              block |-> [CBMIMAGE_TS_SET(b, b.track, b.sector + 1) EXCEPT !.lba = U16(b.lba + 1)]]

cbmimage_i_blockaddress_advance(s, b, do_not_advance_in_track) ==
    LET sector_count == cbmimage_get_sectors_in_track(s, b.track)
        maxtrack     == cbmimage_get_max_track(s)
        fail         == [ret |-> -1, block |-> b]
    IN  IF ~cbmimage_blockaddress_lba_exists(s, b.lba) THEN fail
        ELSE IF /\ s.subdir_relative_addressing # 0
                /\ (b.lba + s.block_subdir_first.lba - 1) >= cbmimage_get_max_lba(s)
        THEN fail
        ELSE IF b.sector + 1 >= sector_count
        THEN IF do_not_advance_in_track # 0 THEN fail
             ELSE IF b.track + 1 > maxtrack THEN fail
             ELSE [ret |-> 0,
                   block |-> [CBMIMAGE_TS_SET(b, b.track + 1, 0) EXCEPT !.lba = U16(b.lba + 1)]]
        ELSE [ret |-> 0,
              block |-> [CBMIMAGE_TS_SET(b, b.track, b.sector + 1) EXCEPT !.lba = U16(b.lba + 1)]]

cbmimage_blockaddress_advance(s, b) == cbmimage_i_blockaddress_advance(s, b, 0)

cbmimage_blockaddress_advance_in_track(s, b) == cbmimage_i_blockaddress_advance(s, b, 1)

cbmimage_blockaddress_add(s, blockresult, block_adder) ==
    IF block_adder.lba = 0 THEN blockresult
    ELSE IF blockresult.lba = 0 THEN block_adder
    ELSE CBMIMAGE_BLOCK_SET_FROM_LBA(s, cbmimage_block_unused,
                                     blockresult.lba + block_adder.lba - 1)

----------------------------------------------------------------------------
(* readwriteblock.c: where a block lies in the raw image buffer.  A        *)
(* pointer into parameter->buffer is the byte offset.  NULL is -256: the   *)
(* bytes NULL[0..255] that a read through a null pointer touches are the   *)
(* addresses -256..-1, none of them a byte of the image.                   *)

NULL == -256

cbmimage_get_bytes_in_block(s) == 256

cbmimage_i_adjust_relative_address(s, b) ==
    IF s.subdir_relative_addressing # 0
    THEN IF b.lba >= s.block_subdir_last.lba
         THEN [ret |-> -1, block |-> b]
         ELSE [ret |-> 0,
               block |-> cbmimage_blockaddress_init_from_lba(
                             s, [b EXCEPT !.lba = U16(b.lba + s.block_subdir_first.lba - 1)]).block]
    ELSE [ret |-> 0, block |-> b]

cbmimage_i_get_address_of_block(s, b) ==
    LET adj == cbmimage_i_adjust_relative_address(s, b)
    IN  IF adj.ret # 0 THEN NULL
        ELSE IF adj.block.lba > 0 /\ adj.block.lba <= cbmimage_get_max_lba(s)
        THEN (adj.block.lba - 1) * cbmimage_get_bytes_in_block(s) + s.subdir_data_offset
        ELSE NULL

(* memcpy(&image[dest], src, n): the image after the copy.                  *)
memcpy(d, dest, src, n) ==
    [a \in DOMAIN d \cup (dest..(dest + n - 1)) |->
        IF a \in dest..(dest + n - 1) THEN src[a - dest + 1] ELSE d[a]]

(* A variant of cbmimage_write_block that copies one byte less than the   *)
(* block has.                                                              *)
write_block_one_byte_short(s, d, b, buf, buffersize) ==
    LET bytes_in_block == cbmimage_get_bytes_in_block(s)
        block_in_buffer_to_copy == cbmimage_i_get_address_of_block(s, b)
    IN  IF buf # <<>> /\ buffersize >= bytes_in_block /\ block_in_buffer_to_copy # NULL
        THEN [ret |-> 0, data |-> memcpy(d, block_in_buffer_to_copy, buf, bytes_in_block - 1)]
        ELSE [ret |-> -1, data |-> d]

(* [ret, data] of cbmimage_write_block(image, b, buf, buffersize); the      *)
(* buffer <<>> is NULL.                                                    *)
cbmimage_write_block(s, d, b, buf, buffersize) ==
    LET bytes_in_block == cbmimage_get_bytes_in_block(s)
        block_in_buffer_to_copy == cbmimage_i_get_address_of_block(s, b)
    IN  IF buf # <<>> /\ buffersize >= bytes_in_block /\ block_in_buffer_to_copy # NULL
        THEN [ret |-> 0, data |-> memcpy(d, block_in_buffer_to_copy, buf, bytes_in_block)]
        ELSE [ret |-> -1, data |-> d]

----------------------------------------------------------------------------
(* internal.h: BAM selectors.                                              *)

CBMIMAGE_I_BAM_SELECTOR_INIT(starttrack, startoffset, multiplier, data_count, track, sector, reverse_order) ==
    [buffer |-> NULL, starttrack |-> starttrack,
     block |-> CBMIMAGE_BLOCK_INIT(track, sector, 0),
     startoffset |-> startoffset, multiplier |-> multiplier,
     data_count |-> data_count, reverse_order |-> reverse_order]

CBMIMAGE_BAM_SELECTOR_INIT(starttrack, startoffset, multiplier, data_count, track, sector) ==
    CBMIMAGE_I_BAM_SELECTOR_INIT(starttrack, startoffset, multiplier, data_count,
                                 track, sector, 0)

CBMIMAGE_BAM_SELECTOR_INIT_REVERSE(starttrack, startoffset, multiplier, data_count, track, sector) ==
    CBMIMAGE_I_BAM_SELECTOR_INIT(starttrack, startoffset, multiplier, data_count,
                                 track, sector, 1)

CBMIMAGE_BAM_COUNTER_SELECTOR_INIT(starttrack, startoffset, multiplier, track, sector) ==
    CBMIMAGE_BAM_SELECTOR_INIT(starttrack, startoffset, multiplier, 0, track, sector)

(* The two selectors CBMIMAGE_BAM_AND_BAM_COUNTER_CREATE() initialises.    *)
BamOfCreate(starttrack, startoffset, multiplier, data_count, track, sector) ==
    CBMIMAGE_BAM_SELECTOR_INIT(starttrack, startoffset + 1, multiplier, data_count,
                               track, sector)

BamCounterOfCreate(starttrack, startoffset, multiplier, data_count, track, sector) ==
    CBMIMAGE_BAM_COUNTER_SELECTOR_INIT(starttrack, startoffset, multiplier, track, sector)

i_d40_d64 ==
    [bam |-> <<BamOfCreate(1, 4, 4, 3, 18, 0)>>,
     bam_counter |-> <<BamCounterOfCreate(1, 4, 4, 3, 18, 0)>>]

i_d71 ==
    [bam |-> <<BamOfCreate(1, 4, 4, 3, 18, 0),
               CBMIMAGE_BAM_SELECTOR_INIT(36, 0, 3, 3, 18 + 35, 0)>>,
     bam_counter |-> <<BamCounterOfCreate(1, 4, 4, 3, 18, 0),
                       CBMIMAGE_BAM_COUNTER_SELECTOR_INIT(36, 221, 1, 18, 0)>>]

i_d81 ==
    [bam |-> <<BamOfCreate(1, 16, 6, 5, 40, 1), BamOfCreate(41, 16, 6, 5, 40, 2)>>,
     bam_counter |-> <<BamCounterOfCreate(1, 16, 6, 5, 40, 1),
                       BamCounterOfCreate(41, 16, 6, 5, 40, 2)>>]

i_d80_d82 ==
    [bam |-> <<BamOfCreate(1, 6, 5, 4, 38, 0), BamOfCreate(51, 6, 5, 4, 38, 3),
               BamOfCreate(101, 6, 5, 4, 38, 6), BamOfCreate(151, 6, 5, 4, 38, 9)>>,
     bam_counter |-> <<BamCounterOfCreate(1, 6, 5, 4, 38, 0),
                       BamCounterOfCreate(51, 6, 5, 4, 38, 3),
                       BamCounterOfCreate(101, 6, 5, 4, 38, 6),
                       BamCounterOfCreate(151, 6, 5, 4, 38, 9)>>]

(* bam.c: cbmimage_i_init_bam_selector / _counter_selector: the first      *)
(* selector_count selectors get their LBA and their buffer pointer.        *)
cbmimage_i_init_bam_selector(s, selector, selector_count) ==
    [i \in 1..Len(selector) |->
        IF i <= selector_count
        THEN LET b == cbmimage_blockaddress_init_from_ts(s, selector[i].block).block
             IN  [selector[i] EXCEPT !.block = b,
                                     !.buffer = cbmimage_i_get_address_of_block(s, b)]
        ELSE selector[i]]

cbmimage_i_init_bam_counter_selector(s, selector, selector_count) ==
    cbmimage_i_init_bam_selector(s, selector, selector_count)

----------------------------------------------------------------------------
(* Image creation: the frame each *_image_open() leaves in image->settings.*)

cbmimage_i_create_last_block(s) ==
    LET last_track  == U8(cbmimage_get_max_track(s))
        last_sector == U8(cbmimage_get_sectors_in_track(s, last_track))
    IN  [s EXCEPT !.lastblock =
            CBMIMAGE_BLOCK_SET_FROM_TS(s, s.lastblock, last_track, last_sector - 1)]

cbmimage_i_d40_d64_d71_chdir_partition_init(s, imagetype, maxtracks) ==
    LET tab == IF imagetype = "D40" THEN sectors_in_track_d40
               ELSE IF imagetype = "D71" THEN sectors_in_track_d71
               ELSE sectors_in_track_d64
        s1 == [s EXCEPT
                 !.maxtracks = maxtracks,
                 !.imagetype = imagetype,
                 !.dir_tracks = <<18, IF imagetype = "D71" THEN 18 + 35 ELSE 0>>,
                 !.maxsectors = 21,
                 !.fct = IF imagetype = "D71" THEN d71_fileimage_functions
                         ELSE d64_fileimage_functions,
                 !.bam_count = IF imagetype = "D71" THEN 2 ELSE 1,
                 !.bam_ref = s.id, !.bam_counter_ref = s.id,
                 !.sectors_in_track = tab,
                 !.track_lba_start =
                     cbmimage_i_d40_d64_d71_calculate_track_lba_start_table(tab, maxtracks)]
        sel == IF imagetype = "D71" THEN i_d71 ELSE i_d40_d64
    IN  Only({[s2 EXCEPT
                 !.dir  = CBMIMAGE_BLOCK_SET_FROM_TS(s2, s2.dir, 18, 1),
                 !.info = CBMIMAGE_BLOCK_SET_FROM_TS(s2, cbmimage_block_unused, 18, 0),
                 !.bam  = cbmimage_i_init_bam_selector(s2, sel.bam, s2.bam_count),
                 !.bam_counter =
                     cbmimage_i_init_bam_counter_selector(s2, sel.bam_counter, s2.bam_count)] :
              s2 \in {cbmimage_i_create_last_block(s1)}})

cbmimage_i_d64_chdir_partition_init(s) ==
    cbmimage_i_d40_d64_d71_chdir_partition_init(s, "D64", 35)

cbmimage_i_d71_chdir_partition_init(s) ==
    cbmimage_i_d40_d64_d71_chdir_partition_init(s, "D71", 70)

cbmimage_i_d40_d64_d71_image_create(s, imagetype, maxtracks) ==
    cbmimage_i_d40_d64_d71_chdir_partition_init(s, imagetype, maxtracks)

cbmimage_i_d80_d82_image_create(s, imagetype, maxtracks) ==
    LET s1 == [ZeroSettings EXCEPT
                 !.fct = d80_d82_fileimage_functions,
                 !.dir_tracks = <<39, 38>>,
                 !.sectors_in_track = sectors_in_track_d82,
                 !.dir = CBMIMAGE_BLOCK_INIT(39, 1, 0),
                 !.maxsectors = 29,
                 !.maxtracks = maxtracks,
                 !.imagetype = imagetype,
                 !.bam_count = IF imagetype = "D80" THEN 2 ELSE 4,
                 !.bam_ref = ZeroSettings.id, !.bam_counter_ref = ZeroSettings.id,
                 !.track_lba_start =
                     cbmimage_i_d80_d82_calculate_track_lba_start_table(
                         sectors_in_track_d82, maxtracks)]
        s2 == cbmimage_i_create_last_block(s1)
    IN  [s2 EXCEPT !.info = CBMIMAGE_BLOCK_SET_FROM_TS(s2, cbmimage_block_unused, 39, 0),
                   !.dir  = cbmimage_blockaddress_init_from_ts(s2, s2.dir).block,
                   !.bam  = cbmimage_i_init_bam_selector(s2, i_d80_d82.bam, 4),
                   !.bam_counter =
                       cbmimage_i_init_bam_counter_selector(s2, i_d80_d82.bam_counter, 4)]

cbmimage_i_d81_chdir_partition_init(s) ==
    LET s1 == [s EXCEPT
                 !.fct = d81_fileimage_functions,
                 !.imagetype = "D81",
                 !.dir_tracks = <<40, 0>>,
                 !.maxtracks = 80,
                 !.maxsectors = 40,
                 !.bam_count = 2,
                 !.bam_ref = s.id, !.bam_counter_ref = s.id]
    IN  Only({[s2 EXCEPT
                 !.dir  = CBMIMAGE_BLOCK_SET_FROM_TS(s2, s2.dir, 40, 3),
                 !.info = CBMIMAGE_BLOCK_SET_FROM_TS(s2, cbmimage_block_unused, 40, 0),
                 !.bam  = cbmimage_i_init_bam_selector(s2, i_d81.bam, 2),
                 !.bam_counter =
                     cbmimage_i_init_bam_counter_selector(s2, i_d81.bam_counter, 2)] :
              s2 \in {cbmimage_i_create_last_block(s1)}})

cbmimage_i_d1m_d2m_d4m_image_create(s, imagetype, maxsectors) ==
    LET s1 == [ZeroSettings EXCEPT
                 !.fct = d1m_d2m_d4m_fileimage_functions,
                 !.dir = CBMIMAGE_BLOCK_INIT(1, 0, 0),
                 !.maxtracks = 81,
                 !.maxsectors = maxsectors,
                 !.imagetype = imagetype,
                 !.is_partition_table = 1]
        s2 == cbmimage_i_create_last_block(s1)
    IN  [s2 EXCEPT
           !.info = CBMIMAGE_BLOCK_SET_FROM_TS(s2, cbmimage_block_unused, 1, 0),
           !.dir  = cbmimage_blockaddress_init_from_ts(s2, s2.dir).block,
           !.block_subdir_first = CBMIMAGE_BLOCK_SET_FROM_TS(s2, s2.block_subdir_first, 81, 8),
           !.block_subdir_last  = CBMIMAGE_BLOCK_SET_FROM_TS(s2, s2.block_subdir_last, 81, 39),
           !.subdir_relative_addressing = 1,
           !.subdir_global_addressing = 0]

(* cbmimage_i_fileimage_create: the switch over the image type, then       *)
(* cbmimage_i_create_last_block once more.                                 *)
cbmimage_i_fileimage_create(imagetype) ==
    cbmimage_i_create_last_block(
        CASE imagetype = "D40"  -> cbmimage_i_d40_d64_d71_image_create(ZeroSettings, "D40", 35)
          [] imagetype = "D64"  -> cbmimage_i_d64_chdir_partition_init(ZeroSettings)
          [] imagetype = "D64_40TRACK" ->
                 cbmimage_i_d40_d64_d71_image_create(ZeroSettings, "D64_40TRACK", 40)
          [] imagetype = "D64_42TRACK" ->
                 cbmimage_i_d40_d64_d71_image_create(ZeroSettings, "D64_42TRACK", 42)
          [] imagetype = "D71"  -> cbmimage_i_d71_chdir_partition_init(ZeroSettings)
          [] imagetype = "D81"  -> cbmimage_i_d81_chdir_partition_init(ZeroSettings)
          [] imagetype = "D80"  -> cbmimage_i_d80_d82_image_create(ZeroSettings, "D80", 77)
          [] imagetype = "D82"  -> cbmimage_i_d80_d82_image_create(ZeroSettings, "D82", 154)
          [] imagetype = "D1M"  -> cbmimage_i_d1m_d2m_d4m_image_create(ZeroSettings, "D1M", 40)
          [] imagetype = "D2M"  -> cbmimage_i_d1m_d2m_d4m_image_create(ZeroSettings, "D2M", 80)
          [] imagetype = "D4M"  -> cbmimage_i_d1m_d2m_d4m_image_create(ZeroSettings, "D4M", 160)
          [] OTHER -> ZeroSettings)

ImageTypes ==
    {"D40", "D64", "D64_40TRACK", "D64_42TRACK", "D71", "D81", "D80", "D82",
     "D1M", "D2M", "D4M"}

----------------------------------------------------------------------------
(* SpecAddr: a caller that opens an image of any type, builds one block    *)
(* address from a track/sector pair and then converts and advances it.     *)

NoCall == [fn |-> "", block |-> cbmimage_block_unused]

NoFat == <<>>

InitAddr ==
    /\ settings \in {cbmimage_i_fileimage_create(t) : t \in ImageTypes}
    /\ block = cbmimage_block_unused
    /\ ret = 0
    /\ call = NoCall
    /\ walk = -1
    /\ fat = NoFat
    /\ written = <<>>
    /\ data = <<>>
    /\ out = {}
    /\ NoFileOpen
    /\ NoChdir

(* cbmimage_blockaddress_init_from_ts_value(image, &block, track, sector)  *)
InitFromTsValue ==
    /\ call.fn = ""
    /\ \E track \in 1..cbmimage_get_max_track(settings) :
       \E sector \in 0..(cbmimage_get_sectors_in_track(settings, track) - 1) :
          LET r == cbmimage_blockaddress_init_from_ts_value(settings, block, track, sector)
          IN  /\ block' = r.block
              /\ ret' = r.ret
              /\ call' = [fn |-> "init_from_ts_value",
                          block |-> CBMIMAGE_BLOCK_INIT(track, sector, 0)]
              /\ walk' = IF track = 1 /\ sector = 0 THEN 0 ELSE -1
    /\ UNCHANGED <<settings, addrIdle>>

(* cbmimage_blockaddress_init_from_lba(image, &block)                      *)
InitFromLba ==
    /\ call.fn = "init_from_ts_value"
    /\ LET r == cbmimage_blockaddress_init_from_lba(settings, block)
       IN  /\ block' = r.block
           /\ ret' = r.ret
    /\ call' = [fn |-> "init_from_lba", block |-> block]
    /\ walk' = -1
    /\ UNCHANGED <<settings, addrIdle>>

(* cbmimage_blockaddress_advance(image, &block)                            *)
Advance ==
    /\ call.fn \in {"init_from_ts_value", "advance"}
    /\ ret = 0
    /\ LET r == cbmimage_blockaddress_advance(settings, block)
       IN  /\ block' = r.block
           /\ ret' = r.ret
           /\ walk' = IF walk >= 0 /\ r.ret = 0 THEN walk + 1 ELSE walk
    /\ call' = [fn |-> "advance", block |-> block]
    /\ UNCHANGED <<settings, addrIdle>>

NextAddr == InitFromTsValue \/ InitFromLba \/ Advance

SpecAddr == InitAddr /\ [][NextAddr]_vars

(* C3: a track/sector pair that exists in the active frame, converted to   *)
(* an LBA by from_ts and back by from_lba, is the same track/sector pair;  *)
(* both conversions succeed.  This holds for every image type.             *)
C3_RoundTrip ==
    (/\ call.fn = "init_from_lba"
     /\ cbmimage_blockaddress_ts_exists(settings, call.block.track, call.block.sector))
    => /\ ret = 0
       /\ block.track = call.block.track
       /\ block.sector = call.block.sector
       /\ block.lba = call.block.lba

C3_Witness ==
    /\ call.fn = "init_from_lba"
    /\ settings.imagetype = "D71"
    /\ call.block.track = 53 /\ call.block.sector = 18
    /\ block.track = 53 /\ block.sector = 18
    /\ ret = 0

(* The block address is the walk-th successor of 1/0 in track-major,       *)
(* sector-minor order: its LBA is walk + 1 and its track/sector is the     *)
(* one that LBA stands for.                                                *)
WalkInOrder ==
    /\ block.lba = walk + 1
    /\ cbmimage_blockaddress_ts_exists(settings, block.track, block.sector)
    /\ cbmimage_blockaddress_init_from_lba(settings, block) = [ret |-> 0, block |-> block]

(* advance failed if and only if it was applied to the block at max_lba.   *)
AdvanceFailsExactlyAtMaxLba ==
    call.fn = "advance" =>
        ((ret # 0) <=> (call.block.lba = cbmimage_get_max_lba(settings)))

C21_AdvanceStopsAtSubdirLast ==
    (/\ call.fn = "advance"
     /\ settings.subdir_relative_addressing # 0
     /\ call.block.lba + settings.block_subdir_first.lba - 1
            = settings.block_subdir_last.lba)
        => ret # 0

----------------------------------------------------------------------------
(* fat.c: the reconstructed FAT.  The object is its entry array, indexed   *)
(* by LBA; cbmimage_fat_create() allocates max_lba + 1 zeroed elements.    *)

CBMIMAGE_FAT_LASTBLOCK == 65535

CBMIMAGE_FAT_UNUSED == 0

cbmimage_fat_create(s) ==
    [lba \in 0..cbmimage_get_max_lba(s) |-> CBMIMAGE_FAT_UNUSED]

cbmimage_i_fat_set(f, b, target_lba) == [f EXCEPT ![b.lba] = target_lba]

cbmimage_fat_set(f, b, target) ==
    cbmimage_i_fat_set(f, b, IF target.lba = 0 THEN CBMIMAGE_FAT_LASTBLOCK ELSE target.lba)

cbmimage_fat_clear(f, b) == cbmimage_i_fat_set(f, b, CBMIMAGE_FAT_UNUSED)

cbmimage_i_fat_get_target_lba(f, b) == f[b.lba]

(* lba holds the result of the comparison (0 or 1), and the default case   *)
(* converts into the parameter 'block': target is returned as initialised  *)
(* unless the switch meets CBMIMAGE_FAT_LASTBLOCK.                         *)
cbmimage_fat_get(s, f, b) ==
    LET lba    == IF cbmimage_i_fat_get_target_lba(f, b) # CBMIMAGE_FAT_UNUSED THEN 1 ELSE 0
        target == cbmimage_block_unused
    IN  IF lba = CBMIMAGE_FAT_UNUSED THEN target
        ELSE IF lba = CBMIMAGE_FAT_LASTBLOCK
        THEN [target EXCEPT !.lba = CBMIMAGE_FAT_LASTBLOCK]
        ELSE target

cbmimage_fat_is_used(f, b) ==
    IF cbmimage_i_fat_get_target_lba(f, b) # CBMIMAGE_FAT_UNUSED THEN 1 ELSE 0

----------------------------------------------------------------------------
(* SpecFat: a caller that creates a FAT for an image and sets, clears and  *)
(* reads the entries of the first MaxFatLba blocks.                        *)

MaxFatLba == 3

FatBlocks(s) ==
    {CBMIMAGE_BLOCK_SET_FROM_LBA(s, cbmimage_block_unused, lba) : lba \in 1..MaxFatLba}

NeverWritten == [state |-> "never", target |-> cbmimage_block_unused]

InitFat ==
    /\ settings \in {cbmimage_i_fileimage_create(t) : t \in {"D64", "D81"}}
    /\ fat = cbmimage_fat_create(settings)
    /\ written = [lba \in 1..MaxFatLba |-> NeverWritten]
    /\ block = cbmimage_block_unused
    /\ ret = 0
    /\ call = NoCall
    /\ walk = -1
    /\ data = <<>>
    /\ out = {}
    /\ NoFileOpen
    /\ NoChdir

(* ret = cbmimage_fat_set(fat, b, target)                                  *)
FatSet ==
    /\ \E b \in FatBlocks(settings) :
       \E target \in FatBlocks(settings) \cup {cbmimage_block_unused} :
          /\ fat' = cbmimage_fat_set(fat, b, target)
          /\ written' = [written EXCEPT ![b.lba] = [state |-> "set", target |-> target]]
          /\ call' = [fn |-> "cbmimage_fat_set", block |-> b]
    /\ ret' = 0
    /\ block' = cbmimage_block_unused
    /\ UNCHANGED <<settings, fatIdle>>

(* ret = cbmimage_fat_clear(fat, b)                                        *)
FatClear ==
    /\ \E b \in FatBlocks(settings) :
          /\ fat' = cbmimage_fat_clear(fat, b)
          /\ written' = [written EXCEPT ![b.lba] = [state |-> "cleared",
                                                    target |-> cbmimage_block_unused]]
          /\ call' = [fn |-> "cbmimage_fat_clear", block |-> b]
    /\ ret' = 0
    /\ block' = cbmimage_block_unused
    /\ UNCHANGED <<settings, fatIdle>>

(* block = cbmimage_fat_get(fat, b)                                        *)
FatGet ==
    /\ \E b \in FatBlocks(settings) :
          /\ block' = cbmimage_fat_get(settings, fat, b)
          /\ call' = [fn |-> "cbmimage_fat_get", block |-> b]
    /\ ret' = 0
    /\ UNCHANGED <<settings, fat, written, fatIdle>>

(* ret = cbmimage_fat_is_used(fat, b)                                      *)
FatIsUsed ==
    /\ \E b \in FatBlocks(settings) :
          /\ ret' = cbmimage_fat_is_used(fat, b)
          /\ call' = [fn |-> "cbmimage_fat_is_used", block |-> b]
    /\ block' = cbmimage_block_unused
    /\ UNCHANGED <<settings, fat, written, fatIdle>>

NextFat == FatSet \/ FatClear \/ FatGet \/ FatIsUsed

SpecFat == InitFat /\ [][NextFat]_vars

(* What fat_get is to return for a block, given what was last written.     *)
FatTerminal == [cbmimage_block_unused EXCEPT !.lba = CBMIMAGE_FAT_LASTBLOCK]

FatExpected(w) ==
    IF w.state = "set"
    THEN (IF w.target.lba = 0 THEN FatTerminal ELSE w.target)
    ELSE cbmimage_block_unused

(* C5: after fat_set(b, target), fat_get(b) returns target when target is  *)
(* a real block and the terminal marker when target is the unused address; *)
(* fat_get of a block never set, or cleared, returns the unused address.   *)
C5_FatGetReturnsWritten ==
    call.fn = "cbmimage_fat_get" => block = FatExpected(written[call.block.lba])

----------------------------------------------------------------------------
(* bam.c                                                                   *)

BAM_MASK_COUNT == 32

ByteAt(d, address) == IF address \in DOMAIN d THEN d[address] ELSE 0

Bit(byte, j) == (byte \div (2 ^ j)) % 2

reverse_bit_order(input) ==
    Bit(input, 0) * 128 + Bit(input, 1) * 64 + Bit(input, 2) * 32 + Bit(input, 3) * 16
    + Bit(input, 4) * 8 + Bit(input, 5) * 4 + Bit(input, 6) * 2 + Bit(input, 7)

cbmimage_i_countbits(value) ==
    Cardinality({p \in (0..(BAM_MASK_COUNT - 1)) \X (0..7) : Bit(value[p[1]], p[2]) = 1})

(* The index (from 0) of the selector for the track, -1 for no track.      *)
cbmimage_i_get_right_selector(s, selector, selector_count, track) ==
    IF track < 1 \/ track > s.maxtracks THEN -1
    ELSE LET stop == {n \in 0..(selector_count - 2) : track < selector[n + 2].starttrack}
         IN  IF stop = {} THEN selector_count - 1
             ELSE CHOOSE n \in stop : \A k \in stop : n <= k

(* The bitmap of the track as [ret, mask], mask: 0..BAM_MASK_COUNT-1 ->    *)
(* byte.                                                                   *)
cbmimage_i_get_bam_of_track(s, d, track) ==
    LET zero == [i \in 0..(BAM_MASK_COUNT - 1) |-> 0]
        of_selector(n) ==
            IF n < 0 THEN [ret |-> -1, mask |-> zero]
            ELSE LET sel == s.bam[n + 1]
                     offset_bam ==
                         U8(sel.startoffset + (track - sel.starttrack) * sel.multiplier)
                 IN  [ret |-> 0,
                      mask |-> [i \in 0..(BAM_MASK_COUNT - 1) |->
                                  IF i >= sel.data_count THEN 0
                                  ELSE LET bam_byte == ByteAt(d, sel.buffer + offset_bam + i)
                                       IN  IF sel.reverse_order # 0
                                           THEN reverse_bit_order(bam_byte)
                                           ELSE bam_byte]]
    IN  IF s.bam_count = 0 THEN [ret |-> -1, mask |-> zero]
        ELSE Only({of_selector(n) :
                   n \in {cbmimage_i_get_right_selector(s, s.bam, s.bam_count, track)}})

cbmimage_i_get_bam_counter_of_track(s, d, track) ==
    IF s.bam_counter = <<>>
    THEN Only({IF m.ret < 0 THEN 0 ELSE cbmimage_i_countbits(m.mask) :
               m \in {cbmimage_i_get_bam_of_track(s, d, track)}})
    ELSE IF s.bam_count = 0 THEN 0
    ELSE LET n == cbmimage_i_get_right_selector(s, s.bam_counter, s.bam_count, track)
         IN  IF n < 0 THEN 0
             ELSE LET sel == s.bam_counter[n + 1]
                      offset_bam ==
                          U8(sel.startoffset + (track - sel.starttrack) * sel.multiplier)
                  IN  ByteAt(d, sel.buffer + offset_bam)

(* -1 and a diagnostic if a bit is set that stands for no sector.  The     *)
(* loop leaves mask bytes below sectors / 8 alone and tests every later    *)
(* byte against 0xFF << (sectors % 8).                                     *)
cbmimage_i_check_max_bam_of_track(s, track, mask) ==
    IF track > cbmimage_get_max_track(s) THEN -1
    ELSE LET sectors_on_track == cbmimage_get_sectors_in_track(s, track)
             full == sectors_on_track \div 8
             remaining == sectors_on_track % 8
         IN  IF \E i \in 0..(BAM_MASK_COUNT - 1) :
                    /\ i >= full
                    /\ IF remaining = 0 THEN mask[i] # 0
                       ELSE mask[i] \div (2 ^ remaining) # 0
             THEN -1
             ELSE 0

(* The diagnostics cbmimage_bam_check_consistency() prints for one track.  *)
BamTrackDiagnostics(s, d, track) ==
    LET mask == cbmimage_i_get_bam_of_track(s, d, track).mask
        bam_counter_of_track == cbmimage_i_get_bam_counter_of_track(s, d, track)
        sectors_on_track == cbmimage_get_sectors_in_track(s, track)
        count_of_bam_blocks == cbmimage_i_countbits(mask)
    IN  (IF cbmimage_i_check_max_bam_of_track(s, track, mask) # 0
         THEN {[track |-> track, text |-> "Bits marked which are not allowed"]} ELSE {})
        \cup
        (IF bam_counter_of_track > sectors_on_track
         THEN {[track |-> track, text |-> "Number of free blocks exceeds no. of sectors"]}
         ELSE {})
        \cup
        (IF count_of_bam_blocks # bam_counter_of_track
         THEN {[track |-> track, text |-> "Reported free blocks differ from the bitmap"]}
         ELSE {})

(* [ret, out]: the loop stops with -1 at the first track without a BAM,    *)
(* and ends with return 0 otherwise.                                       *)
cbmimage_bam_check_consistency(s, d) ==
    LET maxtrack == cbmimage_get_max_track(s)
        nobam == {track \in 1..maxtrack : cbmimage_i_get_bam_of_track(s, d, track).ret < 0}
        stop  == IF nobam = {} THEN maxtrack + 1
                 ELSE CHOOSE t \in nobam : \A u \in nobam : t <= u
    IN  [ret |-> IF nobam = {} THEN 0 ELSE -1,
         out |-> UNION {BamTrackDiagnostics(s, d, track) : track \in 1..(stop - 1)}]

(* cbmimage_get_blocks_free.  The statement                                *)
(*   dir_track_location = (++dir_track_location) % 2                       *)
(* stores to dir_track_location twice without a sequence point in between: *)
(* ub.increment_kept says that the store of the ++ is the one that lasts,  *)
(* and ub.beyond holds the bytes the loop then finds behind dir_tracks[1]. *)
dir_tracks_at(s, dir_track_location, ub) ==
    IF dir_track_location < 2 THEN s.dir_tracks[dir_track_location + 1]
    ELSE IF dir_track_location - 1 \in DOMAIN ub.beyond
    THEN ub.beyond[dir_track_location - 1]
    ELSE 0

(* The tracks from track 'from' on that the loop does not count, when it   *)
(* reaches 'from' with the given dir_track_location.                       *)
RECURSIVE BlocksFreeSkipped(_, _, _, _)
BlocksFreeSkipped(s, from, dir_track_location, ub) ==
    LET track == dir_tracks_at(s, dir_track_location, ub)
    IN  IF track \in from..cbmimage_get_max_track(s)
        THEN {track} \cup BlocksFreeSkipped(
                 s, track + 1,
                 IF ub.increment_kept = 1 THEN U8(dir_track_location + 1)
                 ELSE U8(dir_track_location + 1) % 2,
                 ub)
        ELSE {}

(* The sum of the counters of the tracks lo..hi that are not skipped.      *)
RECURSIVE BlocksFreeCount(_, _, _, _, _)
BlocksFreeCount(s, d, lo, hi, skipped) ==
    IF lo > hi THEN 0
    ELSE IF lo = hi
    THEN IF lo \in skipped THEN 0 ELSE cbmimage_i_get_bam_counter_of_track(s, d, lo)
    ELSE BlocksFreeCount(s, d, lo, (lo + hi) \div 2, skipped)
         + BlocksFreeCount(s, d, ((lo + hi) \div 2) + 1, hi, skipped)

(* count is uint16_t; the frame has fewer than 255 tracks.                 *)
cbmimage_get_blocks_free(s, d, ub) ==
    U16(BlocksFreeCount(s, d, 1, cbmimage_get_max_track(s),
                        BlocksFreeSkipped(s, 1, 0, ub)))

----------------------------------------------------------------------------
(* loop.c: the loop detector.  Its bit map is the set of the marked LBAs.  *)

(* Variant of the function below that rounds the size of the map down.    *)
loop_create_rounded_down(s) ==
    [map_size |-> U16(cbmimage_get_max_lba(s) + 1) \div 8, map |-> {}]

cbmimage_loop_create(s) ==
    [map_size |-> (U16(cbmimage_get_max_lba(s) + 1) + 7) \div 8, map |-> {}]

(* Variant of the function below that never finds a block marked.         *)
loop_mark_never_marked(s, loop, b) ==
    IF b.lba = 0 \/ b.lba > cbmimage_get_max_lba(s)
    THEN [ret |-> -1, loop |-> loop]
    ELSE IF b.lba \div 8 >= loop.map_size
    THEN [ret |-> -1, loop |-> loop]
    ELSE [ret |-> 0, loop |-> [loop EXCEPT !.map = @ \cup {b.lba}]]

cbmimage_loop_mark(s, loop, b) ==
    IF b.lba = 0 \/ b.lba > cbmimage_get_max_lba(s)
    THEN [ret |-> -1, loop |-> loop]
    ELSE IF b.lba \div 8 >= loop.map_size
    THEN [ret |-> -1, loop |-> loop]
    ELSE [ret |-> IF b.lba \in loop.map THEN 1 ELSE 0,
          loop |-> [loop EXCEPT !.map = @ \cup {b.lba}]]

----------------------------------------------------------------------------
(* blockaccessor.c                                                         *)

cbmimage_i_blockaccessor_release(accessor) ==
    [accessor EXCEPT !.data = NULL, !.block = cbmimage_block_unused]

cbmimage_blockaccessor_set_to(s, accessor, b) ==
    LET released == cbmimage_i_blockaccessor_release(accessor)
    IN  IF /\ b.track > 0
           /\ b.track <= cbmimage_get_max_track(s)
           /\ b.sector < cbmimage_get_sectors_in_track(s, b.track)
           /\ b.lba > 0
        THEN [released EXCEPT !.block = b,
                              !.data = cbmimage_i_get_address_of_block(s, b)]
        ELSE released

cbmimage_blockaccessor_create(s, b) ==
    cbmimage_blockaccessor_set_to(s, [block |-> cbmimage_block_unused, data |-> NULL], b)

(* block_next is the caller's object; with want_block FALSE the caller     *)
(* passed NULL.  The accessor has data here (accessor.data # NULL).        *)
cbmimage_blockaccessor_get_next_block(s, d, accessor, want_block, block_next) ==
    LET track  == ByteAt(d, accessor.data)
        sector == ByteAt(d, accessor.data + 1)
    IN  IF track = 0
        THEN [ret |-> IF sector = 0 THEN 256 ELSE sector, block |-> block_next]
        ELSE IF track <= cbmimage_get_max_track(s)
                /\ sector < cbmimage_get_sectors_in_track(s, track)
        THEN IF want_block
             THEN cbmimage_blockaddress_init_from_ts_value(s, block_next, track, sector)
             ELSE [ret |-> 0, block |-> block_next]
        ELSE [ret |-> -1, block |-> block_next]

----------------------------------------------------------------------------
(* chain.c                                                                 *)

(* Variant of the function below that flags a loop without ending the      *)
(* chain.                                                                  *)
chain_readblock_loop_not_done(s, d, c, b) ==
    LET mark == cbmimage_loop_mark(s, c.loop_detector, b)
        c1   == [c EXCEPT !.loop_detector = mark.loop]
    IN  IF mark.ret # 0
        THEN [ret |-> -1, chain |-> [c1 EXCEPT !.is_loop = 1]]
        ELSE LET c2 == [c1 EXCEPT !.block_accessor =
                                     cbmimage_blockaccessor_set_to(s, @, b)]
             IN  [ret |-> cbmimage_blockaccessor_get_next_block(
                              s, d, c2.block_accessor, FALSE, cbmimage_block_unused).ret,
                  chain |-> c2]

cbmimage_i_chain_readblock(s, d, c, b) ==
    LET mark == cbmimage_loop_mark(s, c.loop_detector, b)
        c1   == [c EXCEPT !.loop_detector = mark.loop]
    IN  IF mark.ret # 0
        THEN [ret |-> -1, chain |-> [c1 EXCEPT !.is_loop = 1, !.is_done = 1]]
        ELSE LET c2 == [c1 EXCEPT !.block_accessor =
                                     cbmimage_blockaccessor_set_to(s, @, b)]
             IN  [ret |-> cbmimage_blockaccessor_get_next_block(
                              s, d, c2.block_accessor, FALSE, cbmimage_block_unused).ret,
                  chain |-> c2]

cbmimage_chain_start(s, d, block_start) ==
    cbmimage_i_chain_readblock(
        s, d,
        [block_start    |-> block_start,
         is_done        |-> 0,
         is_loop        |-> 0,
         block_accessor |-> cbmimage_blockaccessor_create(s, block_start),
         loop_detector  |-> cbmimage_loop_create(s)],
        block_start).chain

(* Variant of the function below that takes an advance past the end for   *)
(* a loop.                                                                 *)
chain_advance_flags_done_chain(s, d, c) ==
    LET next == cbmimage_blockaccessor_get_next_block(
                    s, d, c.block_accessor, TRUE, cbmimage_block_unused)
    IN  IF next.ret = 0
        THEN cbmimage_i_chain_readblock(s, d, c, next.block)
        ELSE [ret |-> next.ret,
              chain |-> [c EXCEPT !.is_done = 1, !.is_loop = c.is_done]]

cbmimage_chain_advance(s, d, c) ==
    LET next == cbmimage_blockaccessor_get_next_block(
                    s, d, c.block_accessor, TRUE, cbmimage_block_unused)
    IN  IF next.ret = 0
        THEN cbmimage_i_chain_readblock(s, d, c, next.block)
        ELSE [ret |-> next.ret, chain |-> [c EXCEPT !.is_done = 1]]

cbmimage_chain_last_result(s, d, c) ==
    cbmimage_blockaccessor_get_next_block(
        s, d, c.block_accessor, FALSE, cbmimage_block_unused).ret

cbmimage_chain_is_done(c) == c.is_done

cbmimage_chain_is_loop(c) == c.is_loop

cbmimage_chain_get_current(c) == c.block_accessor.block

cbmimage_chain_get_data(c) == c.block_accessor.data

----------------------------------------------------------------------------
(* file.c.  The directory entry of the file is its start block.            *)

cbmimage_file_open_by_dir_entry(s, d, start_block) ==
    LET c == cbmimage_chain_start(s, d, start_block)
        r == cbmimage_chain_last_result(s, d, c)
        f == [chain |-> c, block_current_offset |-> 0, block_current_remain |-> 0]
    IN  IF r = 0
        THEN [f EXCEPT !.block_current_offset = 2,
                       !.block_current_remain = U16(256 - 2)]
        ELSE IF r > 1
        THEN [f EXCEPT !.block_current_offset = 2,
                       !.block_current_remain = U16(r - 2 + 1)]
        ELSE f

(* The while loop of cbmimage_file_read_next_block; copied is what the     *)
(* loop has written to the caller's buffer so far (bytes_return of them).  *)
RECURSIVE FileReadLoop(_, _, _, _, _)
FileReadLoop(s, d, f, write_remaining, copied) ==
    IF ~(write_remaining > 0 /\ cbmimage_chain_is_done(f.chain) = 0)
    THEN [ret |-> Len(copied), file |-> f, buffer |-> copied]
    ELSE LET bytes_to_copy == Min(write_remaining, f.block_current_remain)
             from == cbmimage_chain_get_data(f.chain) + f.block_current_offset
             f1 == IF bytes_to_copy > 0
                   THEN [f EXCEPT !.block_current_offset = U16(@ + bytes_to_copy),
                                  !.block_current_remain = U16(@ - bytes_to_copy)]
                   ELSE f
             copied1 == copied \o [i \in 1..bytes_to_copy |-> ByteAt(d, from + i - 1)]
             remaining1 == write_remaining - bytes_to_copy
         IN  IF remaining1 > 0
             THEN LET adv == cbmimage_chain_advance(s, d, f1.chain)
                      f2  == [f1 EXCEPT !.chain = adv.chain]
                  IN  IF adv.ret = 0
                      THEN FileReadLoop(s, d,
                               [f2 EXCEPT !.block_current_offset = 2,
                                          !.block_current_remain = U16(256 - 2)],
                               remaining1, copied1)
                      ELSE IF adv.ret = 1
                      THEN FileReadLoop(s, d, f2, 0, copied1)
                      ELSE IF adv.ret > 1
                      THEN FileReadLoop(s, d,
                               [f2 EXCEPT !.block_current_offset = 2,
                                          !.block_current_remain = U16(adv.ret - 2 + 1)],
                               remaining1, copied1)
                      ELSE FileReadLoop(s, d, f2, 0, copied1)
             ELSE FileReadLoop(s, d, f1, remaining1, copied1)

cbmimage_file_read_next_block(s, d, f, buffer_size) ==
    IF cbmimage_chain_is_done(f.chain) # 0
    THEN [ret |-> -1, file |-> f, buffer |-> <<>>]
    ELSE FileReadLoop(s, d, f, buffer_size, <<>>)

----------------------------------------------------------------------------
(* SpecFile: a caller that opens a D64 image whose first MaxFileBlocks     *)
(* blocks (track 1) hold any of a few links and a payload pattern (the     *)
(* rest of the image is zero), and either follows a chain from one of      *)
(* these blocks or opens a file there and reads it with buffers of a few   *)
(* sizes.                                                                  *)

MaxFileBlocks == 2

BufferSizes == {127, 254, 600}

(* The links a block may hold: to a block of the window, a terminator with *)
(* one of a few link-sectors, or a track the image does not have.          *)
LinkChoices ==
    {<<1, sector>> : sector \in 0..(MaxFileBlocks - 1)}
        \cup {<<0, v>> : v \in {0, 1, 128, 255}}
        \cup {<<36, 0>>}

FileData(links) ==
    [a \in 0..(MaxFileBlocks * 256 - 1) |->
        IF a % 256 = 0 THEN links[(a \div 256) + 1][1]
        ELSE IF a % 256 = 1 THEN links[(a \div 256) + 1][2]
        ELSE 1 + (a % 250)]

FileStartBlocks(s) ==
    {CBMIMAGE_BLOCK_SET_FROM_LBA(s, cbmimage_block_unused, lba) : lba \in 1..MaxFileBlocks}

InitFile ==
    /\ settings = cbmimage_i_fileimage_create("D64")
    /\ data \in {FileData(links) : links \in [1..MaxFileBlocks -> LinkChoices]}
    /\ out = {}
    /\ NoFileOpen
    /\ NoChdir
    /\ ret = 0
    /\ call = NoCall
    /\ block = cbmimage_block_unused
    /\ walk = -1
    /\ fat = NoFat
    /\ written = <<>>

(* chain = cbmimage_chain_start(image, block_start)                        *)
ChainStart ==
    /\ chain = NoChain /\ file = NoFile
    /\ \E block_start \in FileStartBlocks(settings) :
          /\ chain' = cbmimage_chain_start(settings, data, block_start)
          /\ call' = [fn |-> "cbmimage_chain_start", block |-> block_start]
    /\ visited' = <<cbmimage_chain_get_current(chain')>>
    /\ ret' = 0
    /\ UNCHANGED <<settings, data, file, buffer, delivered, fileIdle>>

(* The block cbmimage_chain_advance makes the current one, if any: the     *)
(* link of the current block leads to a block and cbmimage_i_chain_readblock*)
(* sets the accessor to it.                                                 *)
BecomesCurrent(s, d, c) ==
    LET next == cbmimage_blockaccessor_get_next_block(
                    s, d, c.block_accessor, TRUE, cbmimage_block_unused)
    IN  IF /\ next.ret = 0
           /\ cbmimage_loop_mark(s, c.loop_detector, next.block).ret = 0
           /\ cbmimage_blockaccessor_set_to(s, c.block_accessor, next.block).block
                  = next.block
        THEN <<next.block>> ELSE <<>>

(* ret = cbmimage_chain_advance(chain); was_done: the chain was done when  *)
(* the call was made.                                                      *)
ChainAdvance ==
    /\ chain # NoChain
    /\ LET r == cbmimage_chain_advance(settings, data, chain)
       IN  /\ chain' = r.chain
           /\ ret' = r.ret
    /\ visited' = visited \o BecomesCurrent(settings, data, chain)
    /\ call' = [fn |-> "cbmimage_chain_advance",
                block |-> cbmimage_chain_get_current(chain),
                was_done |-> cbmimage_chain_is_done(chain)]
    /\ UNCHANGED <<settings, data, file, buffer, delivered, fileIdle>>

(* ret = cbmimage_chain_last_result(chain)                                 *)
ChainLastResult ==
    /\ chain # NoChain
    /\ ret' = cbmimage_chain_last_result(settings, data, chain)
    /\ call' = [fn |-> "cbmimage_chain_last_result",
                block |-> cbmimage_chain_get_current(chain)]
    /\ UNCHANGED <<settings, data, fileVars, fileIdle>>

(* file = cbmimage_file_open_by_dir_entry(dir_entry)                       *)
FileOpenByDirEntry ==
    /\ chain = NoChain /\ file = NoFile
    /\ \E start_block \in FileStartBlocks(settings) :
          /\ file' = cbmimage_file_open_by_dir_entry(settings, data, start_block)
          /\ call' = [fn |-> "cbmimage_file_open_by_dir_entry", block |-> start_block]
    /\ ret' = 0
    /\ UNCHANGED <<settings, data, chain, buffer, delivered, visited, fileIdle>>

(* ret = cbmimage_file_read_next_block(file, buffer, buffer_size); the     *)
(* caller appends what it got to what it has read so far.                  *)
FileReadNextBlock ==
    /\ file # NoFile
    /\ \E buffer_size \in BufferSizes :
          LET r == cbmimage_file_read_next_block(settings, data, file, buffer_size)
          IN  /\ file' = r.file
              /\ ret' = r.ret
              /\ buffer' = r.buffer
              /\ delivered' = delivered \o r.buffer
    /\ call' = [fn |-> "cbmimage_file_read_next_block",
                block |-> cbmimage_chain_get_current(file.chain)]
    /\ UNCHANGED <<settings, data, chain, visited, fileIdle>>

NextFile ==
    \/ ChainStart \/ ChainAdvance \/ ChainLastResult
    \/ FileOpenByDirEntry \/ FileReadNextBlock

SpecFile == InitFile /\ [][NextFile]_vars

(* The link of the chain's current block leads to a block that the chain   *)
(* has already visited.                                                    *)
NextIsVisited(s, d, c) ==
    LET next == cbmimage_blockaccessor_get_next_block(
                    s, d, c.block_accessor, TRUE, cbmimage_block_unused)
    IN  next.ret = 0 /\ next.block.lba \in c.loop_detector.map

(* C2: when following a chain reaches a block the chain has already        *)
(* visited, the traversal stops there (the chain stays on its current      *)
(* block and the step fails), the chain is marked done and looped, and     *)
(* every later cbmimage_file_read_next_block on the file that owns the     *)
(* chain returns an error.                                                 *)
C2_LoopEndsChain ==
    [][/\ (call'.fn = "cbmimage_chain_advance" /\ NextIsVisited(settings, data, chain))
            => /\ ret' < 0
               /\ chain'.is_done = 1 /\ chain'.is_loop = 1
               /\ chain'.block_accessor = chain.block_accessor
       /\ (call'.fn = "cbmimage_file_read_next_block" /\ file'.chain.is_loop = 1)
            => /\ file'.chain.is_done = 1
               /\ file.chain.is_loop = 1 => ret' < 0
               /\ file.chain.is_loop = 0
                    => NextIsVisited(settings, data, file'.chain)
      ]_vars

C2_Witness ==
    /\ call.fn = "cbmimage_file_read_next_block"
    /\ file.chain.is_loop = 1 /\ file.chain.is_done = 1
    /\ ret < 0
    /\ Len(delivered) = 2 * 254

(* The blocks of the file that starts at block b, as byte offsets into the *)
(* image, and whether the file is well-formed: no link leads back to a     *)
(* block of the file or to a block the image does not have, and the last   *)
(* block holds a terminator with a link-sector other than 1.               *)
RECURSIVE FileBlocks(_, _, _, _)
FileBlocks(s, d, b, seen) ==
    LET a      == cbmimage_i_get_address_of_block(s, b)
        track  == ByteAt(d, a)
        sector == ByteAt(d, a + 1)
    IN  IF b.lba \in seen THEN [ok |-> FALSE, blocks |-> <<>>]
        ELSE IF track = 0 THEN [ok |-> sector # 1, blocks |-> <<a>>]
        ELSE IF ~cbmimage_blockaddress_ts_exists(s, track, sector)
        THEN [ok |-> FALSE, blocks |-> <<a>>]
        ELSE LET rest == FileBlocks(
                             s, d,
                             CBMIMAGE_BLOCK_SET_FROM_TS(s, cbmimage_block_unused, track, sector),
                             seen \cup {b.lba})
             IN  [ok |-> rest.ok, blocks |-> <<a>> \o rest.blocks]

OpenFileBlocks == FileBlocks(settings, data, file.chain.block_start, {})

(* The valid-byte count of the last block: its link-sector, 0 meaning 256. *)
ValidBytes(d, a) == IF ByteAt(d, a + 1) = 0 THEN 256 ELSE ByteAt(d, a + 1)

(* The number of bytes the file holds as the read loop counts them: 254    *)
(* for a block with a successor, block_current_remain for the last block.  *)
FileLength(d, blocks) ==
    (Len(blocks) - 1) * 254 + (ValidBytes(d, blocks[Len(blocks)]) - 2 + 1)

(* C7: over the cbmimage_file_read_next_block calls on a well-formed file, *)
(* each call returns the number of bytes it copied (more than none) while  *)
(* data remains, and the first call made after all data has been delivered *)
(* returns 0; no call returns a negative value before that.                *)
C7_ReadProtocol ==
    [][(call'.fn = "cbmimage_file_read_next_block" /\ OpenFileBlocks.ok)
          => LET length == FileLength(data, OpenFileBlocks.blocks)
             IN  /\ Len(delivered) < length
                       => ret' > 0 /\ ret' = Len(buffer')
                 /\ (Len(delivered) = length
                        /\ (call.fn = "cbmimage_file_open_by_dir_entry" \/ ret > 0))
                       => ret' = 0
      ]_vars

(* The payload of the file: bytes 2..255 of every block that has a         *)
(* successor and bytes 2..v-1 of the last block, v its valid-byte count.   *)
RECURSIVE FilePayload(_, _)
FilePayload(d, blocks) ==
    IF blocks = <<>> THEN <<>>
    ELSE LET a    == Head(blocks)
             last == IF Len(blocks) > 1 THEN 255 ELSE ValidBytes(d, a) - 1
         IN  [i \in 1..(last - 1) |-> ByteAt(d, a + 1 + i)] \o FilePayload(d, Tail(blocks))

(* C8: when a well-formed file has been read to its end, the caller has    *)
(* got exactly the payload of the file, in chain order.                    *)
C8_PayloadDelivered ==
    (file # NoFile /\ cbmimage_chain_is_done(file.chain) # 0 /\ OpenFileBlocks.ok)
        => delivered = FilePayload(data, OpenFileBlocks.blocks)

(* C27: cbmimage_file_read_next_block never copies from an offset at or    *)
(* beyond bytes_in_block of the current block: whenever a call has copied  *)
(* data, block_current_offset + block_current_remain <= bytes_in_block,    *)
(* whatever link-sector the terminal block holds.                          *)
C27_CopyWithinBlock ==
    (file # NoFile /\ call.fn = "cbmimage_file_read_next_block" /\ ret > 0)
        => file.block_current_offset + file.block_current_remain
               <= cbmimage_get_bytes_in_block(settings)

(* C17: chain closure: between the start of a chain and the chain being    *)
(* done no block becomes the current block of the chain more than once,    *)
(* whatever the links of the image are and wherever the chain starts.      *)
C17_ChainClosure ==
    \A i, j \in 1..Len(visited) : i # j => visited[i].lba # visited[j].lba

(* The chain has run through every block of the window and its last link   *)
(* leads back into it.                                                     *)
C17_Witness ==
    /\ chain # NoChain
    /\ call.fn = "cbmimage_chain_advance"
    /\ chain.is_loop = 1 /\ chain.is_done = 1
    /\ Len(visited) = MaxFileBlocks

(* C18: cbmimage_chain_advance on a chain that is done is a no-op: the     *)
(* current block, the marks of the loop detector, the looped flag and the  *)
(* done flag stay as they are, whether the chain came to its end at a      *)
(* terminal block or through the detection of a loop.                      *)
C18_AdvancePastDone ==
    [][(call'.fn = "cbmimage_chain_advance" /\ call'.was_done = 1)
           => /\ chain'.block_accessor = chain.block_accessor
              /\ chain'.loop_detector = chain.loop_detector
              /\ chain'.is_loop = chain.is_loop
              /\ chain'.is_done = 1]_vars

(* A chain that ended in a loop has been advanced once more.               *)
C18_Witness ==
    /\ call.fn = "cbmimage_chain_advance"
    /\ call.was_done = 1
    /\ chain.is_loop = 1 /\ chain.is_done = 1

(* C19: cbmimage_chain_last_result returns 0 when the current block has a  *)
(* successor, the valid-byte count, a value of 1..255, when the current    *)
(* block is the terminal block, or an error (a negative value); it returns *)
(* nothing else, whatever the link bytes of the block are.                 *)
C19_LastResultRange ==
    call.fn = "cbmimage_chain_last_result"
        => LET track  == ByteAt(data, cbmimage_chain_get_data(chain))
               sector == ByteAt(data, cbmimage_chain_get_data(chain) + 1)
           IN  \/ ret = 0 /\ track # 0
               \/ ret \in 1..255 /\ track = 0 /\ ret = sector
               \/ ret < 0

----------------------------------------------------------------------------
(* dnp.c, d81.c, d1m_d2m_d4m.c, dir.c: changing into a partition or        *)
(* sub-directory.  A directory entry is [type, start_block, block_count].  *)

DIR_TYPE_PART_OFFSET == 256

DIR_TYPE_PART_CMD_NATIVE == 257

DIR_TYPE_PART_D64 == 258

DIR_TYPE_PART_D71 == 259

DIR_TYPE_PART_D81 == 260

(* dir.c, cbmimage_i_dir_get_partition_data; dei->image->settings is the   *)
(* active frame s.  lba is an unsigned int: below 0 it wraps to a value    *)
(* above every max_lba.                                                    *)
cbmimage_i_dir_get_partition_data(s, dir_entry) ==
    LET lba == dir_entry.start_block.lba + dir_entry.block_count - 1
    IN  IF lba < 0 \/ lba >= cbmimage_get_max_lba(s)
        THEN [ret |-> -1, block_first |-> cbmimage_block_unused,
              block_last |-> cbmimage_block_unused,
              block_count |-> dir_entry.block_count]
        ELSE [ret |-> 0, block_first |-> dir_entry.start_block,
              block_last |-> CBMIMAGE_BLOCK_SET_FROM_LBA(s, cbmimage_block_unused, lba),
              block_count |-> dir_entry.block_count]

(* global_settings is image->global_settings, the frame of the root.       *)
cbmimage_i_dir_set_subpartition_global(s, global_settings, block_subdir_first, block_count) ==
    LET s1 == [s EXCEPT !.block_subdir_first = CBMIMAGE_BLOCK_INIT(1, 0, 1),
                        !.block_subdir_last = global_settings.lastblock,
                        !.subdir_data_offset = 0]
        newdata == cbmimage_i_get_address_of_block(s1, block_subdir_first)
    IN  [ret |-> 0, settings |-> [s1 EXCEPT !.subdir_data_offset = newdata - 0]]

cbmimage_i_dir_set_subpartition_relative(s, block_subdir_first, block_subdir_last) ==
    [ret |-> 0,
     settings |->
        [s EXCEPT !.block_subdir_first =
                      cbmimage_blockaddress_add(s, s.block_subdir_first, block_subdir_first),
                  !.block_subdir_last =
                      cbmimage_blockaddress_add(s, s.block_subdir_first, block_subdir_last)]]

(* The frame with the given id among frames (the active frame first, the   *)
(* root, id 1, last).                                                      *)
FrameIndex(frames, id) == Len(frames) - id + 1

cbmimage_i_d81_chdir(frames, d, dir_entry) ==
    LET s     == frames[1]
        pd    == cbmimage_i_dir_get_partition_data(s, dir_entry)
        first == pd.block_first
        last  == pd.block_last
        track_dir == s.dir_tracks[1]
        fail(text) == [ret |-> -1, frames |-> frames,
                       out |-> {[track |-> first.track, text |-> text]}]
    IN  IF pd.ret # 0 THEN [ret |-> -1, frames |-> frames, out |-> {}]
        ELSE IF first.sector # 0
        THEN fail("Partition does not start on track boundary")
        ELSE IF last.sector # s.maxsectors - 1
        THEN fail("Partition does not end on track boundary")
        ELSE IF \/ first.track = track_dir
                \/ last.track = track_dir
                \/ (first.track < track_dir /\ last.track > track_dir)
        THEN fail("Partition crosses directory track")
        ELSE LET rel == cbmimage_i_dir_set_subpartition_relative(s, first, last)
                 s1  == [rel.settings EXCEPT
                            !.info = cbmimage_blockaccessor_create(rel.settings, first).block]
                 a1  == cbmimage_blockaddress_advance(s1, first).block
                 a2  == cbmimage_blockaddress_advance(s1, a1).block
                 a3  == cbmimage_blockaddress_advance(s1, a2).block
                 initialised(s2) ==
                     LET f2  == [frames EXCEPT ![1] = s2]
                         (* cbmimage_i_init_bam_selector(settings, settings->bam, ...) *)
                         to  == FrameIndex(f2, s2.bam_ref)
                         f3  == [f2 EXCEPT ![to].bam =
                                    cbmimage_i_init_bam_selector(s2, @, s2.bam_count)]
                         toc == FrameIndex(f3, s2.bam_counter_ref)
                     IN  [f3 EXCEPT ![toc].bam_counter =
                                   cbmimage_i_init_bam_counter_selector(s2, @, s2.bam_count),
                                   ![1].dir_tracks = <<0, 0>>]
             IN  [ret |-> rel.ret,
                  frames |->
                      Only({initialised(s2) :
                            s2 \in {[s1 EXCEPT
                                       !.bam[1].block = a1, !.bam_counter[1].block = a1,
                                       !.bam[2].block = a2, !.bam_counter[2].block = a2,
                                       !.dir = a3,
                                       !.subdir_global_addressing = 1,
                                       !.bam_ref = s.id, !.bam_counter_ref = s.id]}}),
                  out |-> {}]

cbmimage_i_dnp_chdir(s, d, dir_entry) ==
    LET pd == cbmimage_i_dir_get_partition_data(s, dir_entry)
    IN  IF pd.ret # 0 THEN [ret |-> -1, settings |-> s]
        ELSE LET info == cbmimage_blockaccessor_create(s, pd.block_first)
                 next == cbmimage_blockaccessor_get_next_block(s, d, info, TRUE, s.dir)
             IN  [ret |-> 0, settings |-> [s EXCEPT !.info = info.block, !.dir = next.block]]

cbmimage_i_dnp_chdir_partition_init(s, d) ==
    LET bam_template_first == CBMIMAGE_BAM_SELECTOR_INIT_REVERSE(1, 32, 32, 32, 1, 2)
        bam_template(i) ==
            [CBMIMAGE_BAM_SELECTOR_INIT_REVERSE(8 + 8 * (i - 1), 0, 32, 32, 1, 3)
                EXCEPT !.block = CBMIMAGE_BLOCK_INIT(1, U8(3 + (i - 1)), i - 1)]
        s1 == [s EXCEPT !.fct = dnp_fileimage_functions,
                        !.imagetype = "DNP",
                        !.dir_tracks = <<1, 0>>,
                        !.maxtracks = 255,
                        !.maxsectors = 256,
                        !.bam_count = 32,
                        !.bam_ref = s.id, !.bam_counter_ref = 0,
                        !.bam_counter = <<>>,
                        !.bam = [i \in 1..32 |-> IF i = 1 THEN bam_template_first
                                                 ELSE bam_template(i - 1)]]
        with_info(s2) ==
            [s2 EXCEPT !.info = CBMIMAGE_BLOCK_SET_FROM_TS(s2, cbmimage_block_unused, 1, 1)]
        with_bam(s3) == [s3 EXCEPT !.bam = cbmimage_i_init_bam_selector(s3, @, 32)]
        with_max_track(s4) ==
            LET block_bam_0 == cbmimage_i_get_address_of_block(s4, s4.bam[1].block)
                max_track_from_info_block ==
                    IF block_bam_0 # NULL THEN ByteAt(d, block_bam_0 + 8) ELSE 0
            IN  IF block_bam_0 = NULL \/ max_track_from_info_block = 0
                THEN [ret |-> -1, settings |-> s4]
                ELSE LET s5 == cbmimage_i_create_last_block(
                                   [s4 EXCEPT !.maxtracks = max_track_from_info_block])
                     IN  [ret |-> 0,
                          settings |->
                              [s5 EXCEPT !.dir = CBMIMAGE_BLOCK_SET_FROM_TS(s5, s5.dir, 1, 34)]]
    IN  Only({with_max_track(s4) :
              s4 \in {with_bam(s3) :
                       s3 \in {with_info(s2) :
                                s2 \in {cbmimage_i_create_last_block(s1)}}}})

cbmimage_i_d1m_d2m_d4m_chdir(s, global_settings, d, dir_entry) ==
    IF s.is_partition_table = 0 THEN [ret |-> -1, settings |-> s]
    ELSE LET s1 == [s EXCEPT !.is_partition_table = 0]
             pd == cbmimage_i_dir_get_partition_data(s1, dir_entry)
         IN  IF pd.ret # 0 THEN [ret |-> -1, settings |-> s1]
             ELSE LET s2 == [s1 EXCEPT !.subdir_relative_addressing = 1,
                                       !.subdir_global_addressing = 0]
                      partition_init(s3) ==
                          CASE dir_entry.type = DIR_TYPE_PART_CMD_NATIVE ->
                                   cbmimage_i_dnp_chdir_partition_init(s3, d)
                            [] dir_entry.type = DIR_TYPE_PART_D64 ->
                                   [ret |-> 0,
                                    settings |-> cbmimage_i_d64_chdir_partition_init(s3)]
                            [] dir_entry.type = DIR_TYPE_PART_D71 ->
                                   [ret |-> 0,
                                    settings |-> cbmimage_i_d71_chdir_partition_init(s3)]
                            [] dir_entry.type = DIR_TYPE_PART_D81 ->
                                   [ret |-> 0,
                                    settings |-> cbmimage_i_d81_chdir_partition_init(s3)]
                            [] OTHER -> [ret |-> -1, settings |-> s3]
                  IN  Only({partition_init(s3) :
                            s3 \in {cbmimage_i_dir_set_subpartition_global(
                                        s2, global_settings, pd.block_first,
                                        pd.block_count).settings}})

(* image->settings->fct.chdir(image->settings, dir_entry)                  *)
FctChdir(frames, d, dir_entry) ==
    LET s == frames[1]
        global_settings == frames[Len(frames)]
        top(r) == [ret |-> r.ret, frames |-> [frames EXCEPT ![1] = r.settings], out |-> {}]
    IN  CASE s.fct.chdir = "d81" -> cbmimage_i_d81_chdir(frames, d, dir_entry)
          [] s.fct.chdir = "dnp" -> top(cbmimage_i_dnp_chdir(s, d, dir_entry))
          [] OTHER -> top(cbmimage_i_d1m_d2m_d4m_chdir(s, global_settings, d, dir_entry))

(* Variant of the function below that unlinks the frame below the active   *)
(* one and keeps the active one.                                           *)
chdir_close_unlinks_parent(s, next) ==
    IF next # <<>>
    THEN [error |-> 0, settings |-> s, next_settings |-> Tail(next)]
    ELSE [error |-> 1, settings |-> s, next_settings |-> next]

(* Pops the active frame; the FAT and the info accessor of the popped      *)
(* frame are released with it.                                             *)
cbmimage_dir_chdir_close(s, next) ==
    IF next # <<>>
    THEN [error |-> 0, settings |-> Head(next), next_settings |-> Tail(next)]
    ELSE [error |-> 1, settings |-> s, next_settings |-> next]

(* Variant of the function below that works on image->settings itself     *)
(* instead of on a copy.                                                   *)
chdir_without_copy(s, next, d, dir_entry) ==
    IF s.fct.chdir = ""
    THEN [error |-> 1, settings |-> s, next_settings |-> next, out |-> {}]
    ELSE LET new_settings == [s EXCEPT !.id = Len(next) + 2, !.fat = 0,
                                       !.info = cbmimage_block_unused]
             done(r) ==
                 IF r.ret = 0
                 THEN [error |-> 0, settings |-> r.frames[1],
                       next_settings |->
                           <<[r.frames[1] EXCEPT !.id = s.id]>> \o Tail(Tail(r.frames)),
                       out |-> r.out]
                 ELSE [error |-> 1, settings |-> r.frames[1],
                       next_settings |-> Tail(Tail(r.frames)), out |-> r.out]
         IN  Only({done(r) : r \in {FctChdir(<<new_settings, s>> \o next, d, dir_entry)}})

cbmimage_dir_chdir(s, next, d, dir_entry) ==
    IF s.fct.chdir = ""
    THEN [error |-> 1, settings |-> s, next_settings |-> next, out |-> {}]
    ELSE LET new_settings == [s EXCEPT !.id = Len(next) + 2, !.fat = 0,
                                       !.info = cbmimage_block_unused]
             done(r) ==
                 IF r.ret = 0
                 THEN [error |-> 0, settings |-> r.frames[1],
                       next_settings |-> Tail(r.frames), out |-> r.out]
                 ELSE LET closed == cbmimage_dir_chdir_close(r.frames[1], Tail(r.frames))
                      IN  [error |-> 1, settings |-> closed.settings,
                           next_settings |-> closed.next_settings, out |-> r.out]
         IN  Only({done(r) : r \in {FctChdir(<<new_settings, s>> \o next, d, dir_entry)}})

----------------------------------------------------------------------------
(* SpecChdir: a caller that opens a D64, D81 or D1M image (all zero but    *)
(* the maximum-track byte of a CMD native partition), changes into         *)
(* partitions and sub-directories whose directory entries hold any of a    *)
(* few types, start blocks and lengths, and leaves them again.             *)

MaxDepth == 2

(* Where byte 8 of the first BAM block (1/2) of a CMD native partition     *)
(* lies that starts at the given LBA of the image.                         *)
DnpMaxTrackAddress(lba) == (lba - 1 + 2) * 256 + 8

(* An entry of a partition table (dir.c 188-208) with the given type       *)
(* byte, start and length (both counted in 512 byte units).                *)
PartitionTableEntry(s, type, start, count) ==
    [type |-> type + DIR_TYPE_PART_OFFSET,
     start_block |-> CBMIMAGE_BLOCK_SET_FROM_LBA(s, cbmimage_block_unused, start * 2 + 1),
     block_count |-> U16(count * 2)]

(* An entry of a directory (dir.c 212-254).                                *)
DirectoryEntry(s, type, track, sector, count) ==
    [type |-> type,
     start_block |-> CBMIMAGE_BLOCK_SET_FROM_TS(s, cbmimage_block_unused, track, sector),
     block_count |-> count]

(* The entries the active directory may hold; their start blocks exist.    *)
DirEntries(s) ==
    {e \in IF s.is_partition_table # 0
           THEN {PartitionTableEntry(s, type, start, count) :
                    type \in {1, 2, 3, 4, 255}, start \in {0, 16},
                    count \in {342, 1536, 1600, 1620}}
           ELSE {DirectoryEntry(s, type, ts[1], ts[2], count) :
                    type \in {5, 6},
                    ts \in {<<1, 0>>, <<2, 0>>, <<1, 1>>, <<39, 0>>},
                    count \in {40, 80, 100}} :
        e.start_block.lba > 0}

InitChdir ==
    /\ settings \in {cbmimage_i_fileimage_create(t) : t \in {"D64", "D81", "D1M"}}
    /\ data \in {[a \in {DnpMaxTrackAddress(1), DnpMaxTrackAddress(33)} |-> v] : v \in {0, 12}}
    /\ out = {}
    /\ NoFileOpen
    /\ NoChdir
    /\ ret = 0
    /\ call = NoCall
    /\ block = cbmimage_block_unused
    /\ walk = -1
    /\ fat = NoFat
    /\ written = <<>>

(* ret = cbmimage_dir_chdir(dir_entry)                                     *)
DirChdir ==
    /\ Len(next_settings) < MaxDepth
    /\ \E dir_entry \in DirEntries(settings) :
          \E r \in {cbmimage_dir_chdir(settings, next_settings, data, dir_entry)} :
              /\ settings' = r.settings
              /\ next_settings' = r.next_settings
              /\ ret' = r.error
              /\ out' = r.out
              /\ before' = IF r.error = 0 THEN <<settings>> \o before ELSE before
              /\ entered' = IF r.error = 0 THEN <<dir_entry>> \o entered ELSE entered
              /\ call' = [fn |-> "cbmimage_dir_chdir", block |-> dir_entry.start_block]
    /\ UNCHANGED <<data, chdirIdle>>

(* ret = cbmimage_dir_chdir_close(image)                                   *)
DirChdirClose ==
    /\ LET r == cbmimage_dir_chdir_close(settings, next_settings)
       IN  /\ settings' = r.settings
           /\ next_settings' = r.next_settings
           /\ ret' = r.error
           /\ before' = IF r.error = 0 THEN Tail(before) ELSE before
           /\ entered' = IF r.error = 0 THEN Tail(entered) ELSE entered
    /\ out' = {}
    /\ call' = [fn |-> "cbmimage_dir_chdir_close", block |-> cbmimage_block_unused]
    /\ UNCHANGED <<data, chdirIdle>>

(* The names of the blocks the caller resolves.                            *)
ResolvedNames == {<<1, 0>>, <<1, 1>>, <<2, 0>>}

(* ret = cbmimage_i_get_address_of_block(image, b), b a block of the       *)
(* active frame (the function asserts block.lba > 0).                      *)
GetAddressOfBlock ==
    /\ \E ts \in ResolvedNames :
          \E b \in {CBMIMAGE_BLOCK_SET_FROM_TS(settings, cbmimage_block_unused, ts[1], ts[2])} :
              /\ b.lba > 0
              /\ ret' = cbmimage_i_get_address_of_block(settings, b)
              /\ call' = [fn |-> "cbmimage_i_get_address_of_block", block |-> b]
    /\ out' = {}
    /\ UNCHANGED <<settings, data, chdirVars, chdirIdle>>

NextChdir == DirChdir \/ DirChdirClose \/ GetAddressOfBlock

SpecChdir == InitChdir /\ [][NextChdir]_vars

(* C28: if chdir fails, for whatever reason, the chdir stack depth and      *)
(* every field of the active frame are the same after the call as before   *)
(* it.                                                                     *)
C28_FailedChdirChangesNothing ==
    [][(call'.fn = "cbmimage_dir_chdir" /\ ret' # 0)
          => /\ Len(next_settings') = Len(next_settings)
             /\ settings' = settings]_vars

(* A chdir has failed on the partition table of a D1M image, after the     *)
(* new frame had been pushed and changed, and one inside a partition.      *)
C28_Witness ==
    /\ call.fn = "cbmimage_dir_chdir"
    /\ ret # 0
    /\ call.block.lba > 0
    /\ \/ settings.is_partition_table # 0
       \/ Len(next_settings) > 0

(* C9: a successful chdir_close after a successful chdir makes the parent  *)
(* frame the active frame again, with every field as it was before the     *)
(* chdir (and the frames below it as they were).                           *)
C9_CloseRestoresParent ==
    [][(call'.fn = "cbmimage_dir_chdir_close" /\ ret' = 0)
          => /\ settings' = Head(before)
             /\ next_settings' = Tail(before)
      ]_vars

C9_Witness ==
    /\ call.fn = "cbmimage_dir_chdir_close" /\ ret = 0
    /\ settings.imagetype = "D81" /\ settings.subdir_relative_addressing = 1
    /\ Len(next_settings) = 1

(* C10: while a partition is active, no frame has both                     *)
(* subdir_global_addressing and subdir_relative_addressing set.            *)
C10_AddressingFlagsExclusive ==
    next_settings # <<>>
        => \A f \in {settings} \cup {next_settings[i] : i \in DOMAIN next_settings} :
               ~(f.subdir_global_addressing # 0 /\ f.subdir_relative_addressing # 0)

(* C11: inside a 1581 partition (a frame cbmimage_i_d81_chdir has made)    *)
(* that starts at the block B0 of its parent, a block of the partition     *)
(* named t/s resolves to the buffer offset of the block of the parent      *)
(* whose LBA is B0.lba + ts_to_lba(t, s) - 1.                              *)
C11_PartitionRebasing ==
    (/\ call.fn = "cbmimage_i_get_address_of_block"
     /\ next_settings # <<>>
     /\ Head(next_settings).fct.chdir = "d81"
     /\ call.block.lba <= Head(entered).block_count)
        => ret = cbmimage_i_get_address_of_block(
                     Head(next_settings),
                     CBMIMAGE_BLOCK_SET_FROM_LBA(
                         Head(next_settings), cbmimage_block_unused,
                         Head(entered).start_block.lba + call.block.lba - 1))

----------------------------------------------------------------------------
(* SpecBam: a caller that opens a D64 image whose BAM entries of the first *)
(* MaxBamTracks tracks hold any of a few byte values (the rest of the      *)
(* image is zero), and checks the BAM.                                     *)

MaxBamTracks == 1

(* The bytes of one BAM entry: the counter and the three bitmap bytes.     *)
BamEntryChoices ==
    [counter : {0, 1, 21, 22}, b0 : {0, 1, 255}, b1 : {0, 255}, b2 : {0, 31, 32}]

CounterAddress(s, track) ==
    LET sel == s.bam_counter[cbmimage_i_get_right_selector(
                                 s, s.bam_counter, s.bam_count, track) + 1]
    IN  sel.buffer + U8(sel.startoffset + (track - sel.starttrack) * sel.multiplier)

MaskAddress(s, track) ==
    LET sel == s.bam[cbmimage_i_get_right_selector(s, s.bam, s.bam_count, track) + 1]
    IN  sel.buffer + U8(sel.startoffset + (track - sel.starttrack) * sel.multiplier)

(* The raw image that holds the BAM entries e[track] and zeros elsewhere.  *)
BamData(s, e) ==
    LET at(track) == {CounterAddress(s, track)} \cup
                     {MaskAddress(s, track) + i : i \in 0..2}
    IN  [a \in UNION {at(track) : track \in DOMAIN e} |->
            LET track == CHOOSE t \in DOMAIN e : a \in at(t)
            IN  IF a = CounterAddress(s, track) THEN e[track].counter
                ELSE IF a = MaskAddress(s, track) THEN e[track].b0
                ELSE IF a = MaskAddress(s, track) + 1 THEN e[track].b1
                ELSE e[track].b2]

InitBam ==
    /\ settings = cbmimage_i_fileimage_create("D64")
    /\ data \in {BamData(settings, e) : e \in [1..MaxBamTracks -> BamEntryChoices]}
    /\ out = {}
    /\ NoFileOpen
    /\ NoChdir
    /\ ret = 0
    /\ call = NoCall
    /\ block = cbmimage_block_unused
    /\ walk = -1
    /\ fat = NoFat
    /\ written = <<>>

(* ret = cbmimage_bam_check_consistency(image)                             *)
BamCheckConsistency ==
    /\ call.fn = ""
    /\ LET r == cbmimage_bam_check_consistency(settings, data)
       IN  /\ ret' = r.ret
           /\ out' = r.out
    /\ call' = [fn |-> "cbmimage_bam_check_consistency", block |-> cbmimage_block_unused]
    /\ UNCHANGED <<settings, data, bamIdle>>

(* free = cbmimage_bam_get_free_on_track(image, track)                     *)
BamGetFreeOnTrack ==
    /\ call.fn = ""
    /\ \E track \in 1..MaxBamTracks :
          /\ ret' = cbmimage_i_get_bam_counter_of_track(settings, data, track)
          /\ call' = [fn |-> "cbmimage_bam_get_free_on_track",
                      block |-> CBMIMAGE_BLOCK_INIT(track, 0, 0)]
    /\ out' = {}
    /\ UNCHANGED <<settings, data, bamIdle>>

NextBam == BamCheckConsistency \/ BamGetFreeOnTrack

SpecBam == InitBam /\ [][NextBam]_vars

(* The BAM is clean: on every track of the frame no bitmap bit stands for  *)
(* a sector index >= sectors_in_track, the counter byte is the number of   *)
(* set bitmap bits, and the counter is at most sectors_in_track.           *)
BamClean(s, d) ==
    \A track \in 1..cbmimage_get_max_track(s) :
        LET mask == cbmimage_i_get_bam_of_track(s, d, track).mask
            counter == cbmimage_i_get_bam_counter_of_track(s, d, track)
            sectors == cbmimage_get_sectors_in_track(s, track)
        IN  /\ \A i \in 0..(BAM_MASK_COUNT - 1) : \A j \in 0..7 :
                   (8 * i + j >= sectors) => Bit(mask[i], j) = 0
            /\ counter = cbmimage_i_countbits(mask)
            /\ counter <= sectors

(* C6: cbmimage_bam_check_consistency returns 0 if and only if the BAM is  *)
(* clean; any violation makes the return value non-zero.                   *)
C6_ConsistencyReturnsZeroIffClean ==
    call.fn = "cbmimage_bam_check_consistency"
    => ((ret = 0) <=> BamClean(settings, data))

----------------------------------------------------------------------------
(* chain.c, blockaccessor.c, bam.c: what the directory and the validator   *)
(* use besides the operations above.                                       *)

cbmimage_chain_get_next(s, d, c) ==
    cbmimage_blockaccessor_get_next_block(
        s, d, c.block_accessor, TRUE, cbmimage_block_unused).block

cbmimage_blockaccessor_follow(s, d, accessor) ==
    LET next == cbmimage_blockaccessor_get_next_block(
                    s, d, accessor, TRUE, cbmimage_block_unused)
    IN  IF next.ret = 0
        THEN [ret |-> 0, accessor |-> cbmimage_blockaccessor_set_to(s, accessor, next.block)]
        ELSE [ret |-> next.ret, accessor |-> cbmimage_i_blockaccessor_release(accessor)]

BAM_REALLY_FREE == 1

BAM_FREE == 2

BAM_USED == 3

cbmimage_i_bam_check_really_unused(s, d, b) ==
    LET block_buffer == cbmimage_i_get_address_of_block(s, b)
        bytes_in_block == cbmimage_get_bytes_in_block(s)
    IN  IF block_buffer = NULL THEN 0
        ELSE IF ByteAt(d, block_buffer + 2) = 1
        THEN IF \A i \in 1..(bytes_in_block - 1) : ByteAt(d, block_buffer + i) = 1 THEN 1 ELSE 0
        ELSE IF ByteAt(d, block_buffer + 2) = 0
        THEN IF \A i \in 0..(bytes_in_block - 1) : ByteAt(d, block_buffer + i) = 0 THEN 1 ELSE 0
        ELSE 0

cbmimage_bam_get(s, d, b) ==
    LET bam_of_track == cbmimage_i_get_bam_of_track(s, d, b.track)
        index  == b.sector \div 8
        bitpos == b.sector % 8
    IN  IF bam_of_track.ret < 0 THEN -1
        ELSE IF Bit(bam_of_track.mask[index], bitpos) = 0 THEN BAM_USED
        ELSE IF cbmimage_i_bam_check_really_unused(s, d, b) # 0 THEN BAM_REALLY_FREE
        ELSE BAM_FREE

----------------------------------------------------------------------------
(* dir.c: the enumeration of a directory.  dei is the                      *)
(* cbmimage_i_dir_entry_internal object; of the entry it keeps what the    *)
(* validator reads (name0 is name.text[0]).  The frame is a directory, not *)
(* a partition table, and no directory slot of the images used here holds  *)
(* a GEOS file type or structure byte, so that is_geos stays 0.            *)

DIR_TYPE_DEL == 0

DIR_TYPE_REL == 4

DIR_TYPE_PART1581 == 5

DIR_TYPE_CMD_NATIVE == 6

(* The layout of a directory slot (cbmimage/internal/dir.h).               *)
CBMIMAGE_DIR_ENTRY ==
    [TYPE_OFFSET |-> 2, TYPE_MASK_TYPE |-> 15, TYPE_MASK_LOCKED |-> 64,
     TYPE_MASK_CLOSED |-> 128, TRACK_OFFSET |-> 3, SECTOR_OFFSET |-> 4,
     NAME_OFFSET |-> 5, BLOCK_COUNT_LOW |-> 30, BLOCK_COUNT_HIGH |-> 31,
     NEXT_ONE |-> 32]

ZeroDirEntry ==
    [type |-> 0, is_locked |-> 0, is_closed |-> 0,
     start_block |-> CBMIMAGE_BLOCK_INIT(0, 0, 0), block_count |-> 0,
     is_geos |-> 0, is_valid |-> 0, name0 |-> 0]

(* Variant of the function below that does not mark the directory blocks  *)
(* in the loop detector.                                                    *)
dir_get_without_loop_mark(s, d, dei) ==
    LET bytes_in_block == cbmimage_get_bytes_in_block(s)
        (* advance to next block *)
        followed(dei0) ==
            IF dei0.dir_block_offset >= bytes_in_block
            THEN LET v == cbmimage_blockaccessor_follow(s, d, dei0.dir_block_accessor)
                 IN  IF v.ret # 0
                     THEN [ret |-> -1,
                           dei |-> [dei0 EXCEPT !.dir_block_accessor = v.accessor]]
                     ELSE [ret |-> 0,
                           dei |-> [dei0 EXCEPT !.dir_block_accessor = v.accessor,
                                                !.dir_block_offset = @ - bytes_in_block]]
            ELSE [ret |-> 0, dei |-> dei0]
        marked(f) == f
        (* get the directory data *)
        decoded(m) ==
            LET slot(offset) ==
                    ByteAt(d, m.dei.dir_block_accessor.data + m.dei.dir_block_offset + offset)
                entry(type, start_block) ==
                    [m.dei.entry EXCEPT
                       !.type = type % (CBMIMAGE_DIR_ENTRY.TYPE_MASK_TYPE + 1),
                       !.is_locked = (type \div CBMIMAGE_DIR_ENTRY.TYPE_MASK_LOCKED) % 2,
                       !.is_closed = (type \div CBMIMAGE_DIR_ENTRY.TYPE_MASK_CLOSED) % 2,
                       !.start_block = start_block,
                       !.is_geos = 0,
                       !.block_count = slot(CBMIMAGE_DIR_ENTRY.BLOCK_COUNT_LOW)
                                       + 256 * slot(CBMIMAGE_DIR_ENTRY.BLOCK_COUNT_HIGH),
                       !.name0 = slot(CBMIMAGE_DIR_ENTRY.NAME_OFFSET)]
            IN  IF m.ret # 0 THEN m
                ELSE Only({[ret |-> 0,
                            dei |-> [m.dei EXCEPT
                               !.is_empty = IF type = 0 THEN 1 ELSE 0,
                               !.entry = entry(type, start_block),
                               !.dir_block_offset = @ + CBMIMAGE_DIR_ENTRY.NEXT_ONE]] :
                           type \in {slot(CBMIMAGE_DIR_ENTRY.TYPE_OFFSET)},
                           start_block \in
                               {CBMIMAGE_BLOCK_SET_FROM_TS(
                                    s, cbmimage_block_unused, track, sector) :
                                track \in {slot(CBMIMAGE_DIR_ENTRY.TRACK_OFFSET)},
                                sector \in {slot(CBMIMAGE_DIR_ENTRY.SECTOR_OFFSET)}}})
    IN  Only({decoded(m) : m \in {marked(f) : f \in {followed(dei0) : dei0 \in {dei}}}})

cbmimage_i_dir_get(s, d, dei) ==
    LET bytes_in_block == cbmimage_get_bytes_in_block(s)
        (* advance to next block *)
        followed(dei0) ==
            IF dei0.dir_block_offset >= bytes_in_block
            THEN LET v == cbmimage_blockaccessor_follow(s, d, dei0.dir_block_accessor)
                 IN  IF v.ret # 0
                     THEN [ret |-> -1,
                           dei |-> [dei0 EXCEPT !.dir_block_accessor = v.accessor]]
                     ELSE [ret |-> 0,
                           dei |-> [dei0 EXCEPT !.dir_block_accessor = v.accessor,
                                                !.dir_block_offset = @ - bytes_in_block]]
            ELSE [ret |-> 0, dei |-> dei0]
        marked(f) ==
            IF f.ret = 0 /\ f.dei.dir_block_offset = 0
            THEN LET mark == cbmimage_loop_mark(s, f.dei.loop_detector,
                                                f.dei.dir_block_accessor.block)
                 IN  [ret |-> IF mark.ret # 0 THEN -1 ELSE 0,
                      dei |-> [f.dei EXCEPT !.loop_detector = mark.loop]]
            ELSE f
        (* get the directory data *)
        decoded(m) ==
            LET slot(offset) ==
                    ByteAt(d, m.dei.dir_block_accessor.data + m.dei.dir_block_offset + offset)
                entry(type, start_block) ==
                    [m.dei.entry EXCEPT
                       !.type = type % (CBMIMAGE_DIR_ENTRY.TYPE_MASK_TYPE + 1),
                       !.is_locked = (type \div CBMIMAGE_DIR_ENTRY.TYPE_MASK_LOCKED) % 2,
                       !.is_closed = (type \div CBMIMAGE_DIR_ENTRY.TYPE_MASK_CLOSED) % 2,
                       !.start_block = start_block,
                       !.is_geos = 0,
                       !.block_count = slot(CBMIMAGE_DIR_ENTRY.BLOCK_COUNT_LOW)
                                       + 256 * slot(CBMIMAGE_DIR_ENTRY.BLOCK_COUNT_HIGH),
                       !.name0 = slot(CBMIMAGE_DIR_ENTRY.NAME_OFFSET)]
            IN  IF m.ret # 0 THEN m
                ELSE Only({[ret |-> 0,
                            dei |-> [m.dei EXCEPT
                               !.is_empty = IF type = 0 THEN 1 ELSE 0,
                               !.entry = entry(type, start_block),
                               !.dir_block_offset = @ + CBMIMAGE_DIR_ENTRY.NEXT_ONE]] :
                           type \in {slot(CBMIMAGE_DIR_ENTRY.TYPE_OFFSET)},
                           start_block \in
                               {CBMIMAGE_BLOCK_SET_FROM_TS(
                                    s, cbmimage_block_unused, track, sector) :
                                track \in {slot(CBMIMAGE_DIR_ENTRY.TRACK_OFFSET)},
                                sector \in {slot(CBMIMAGE_DIR_ENTRY.SECTOR_OFFSET)}}})
    IN  Only({decoded(m) : m \in {marked(f) : f \in {followed(dei0) : dei0 \in {dei}}}})

RECURSIVE cbmimage_i_dir_get_nonempty(_, _, _)
cbmimage_i_dir_get_nonempty(s, d, dei) ==
    LET got(r) ==
            IF r.ret # 0
            THEN [ret |-> r.ret, dei |-> [r.dei EXCEPT !.entry.is_valid = 0]]
            ELSE IF /\ r.dei.entry.type = DIR_TYPE_DEL
                    /\ r.dei.entry.is_locked = 0
                    /\ r.dei.entry.is_closed = 0
                    /\ r.dei.entry.start_block.track = 0
                    /\ r.dei.entry.name0 = 0
            THEN cbmimage_i_dir_get_nonempty(s, d, r.dei)
            ELSE [ret |-> 0, dei |-> [r.dei EXCEPT !.entry.is_valid = 1]]
    IN  Only({got(r) : r \in {cbmimage_i_dir_get(s, d, dei)}})

cbmimage_dir_get_first(s, d) ==
    Only({cbmimage_i_dir_get_nonempty(s, d, dei).dei :
          dei \in {[loop_detector      |-> cbmimage_loop_create(s),
                    dir_block_accessor |-> cbmimage_blockaccessor_create(s, s.dir),
                    dir_block_offset   |-> 0,
                    is_empty           |-> 0,
                    entry              |-> ZeroDirEntry]}})

cbmimage_dir_get_next(s, d, dei) ==
    Only({r : r \in {cbmimage_i_dir_get_nonempty(s, d, dei)}})

cbmimage_dir_get_is_valid(dei) == dei.entry.is_valid

cbmimage_dir_is_deleted(dei) == dei.is_empty

----------------------------------------------------------------------------
(* d40_d64_d71.c: the post-pass of the validator for a D71 image.  The     *)
(* state of its loop is [block_current, block_next, last_run, fat, ret,    *)
(* out].                                                                   *)

RECURSIVE D71SetBamLoop(_, _)
D71SetBamLoop(s, st) ==
    LET marked == cbmimage_fat_is_used(st.fat, st.block_current) # 0
        st1 == [st EXCEPT
                  !.ret = IF marked THEN -1 ELSE @,
                  !.out = IF marked
                          THEN @ \cup {[text |-> "Marking already marked block",
                                        start |-> s.block_subdir_first,
                                        at |-> st.block_current]}
                          ELSE @,
                  !.fat = cbmimage_fat_set(@, st.block_current, st.block_next)]
        advanced(adv) ==
            [st1 EXCEPT !.block_current = st.block_next,
                        !.block_next = IF adv.ret # 0 THEN cbmimage_block_unused
                                       ELSE adv.block,
                        !.last_run = IF adv.ret # 0 THEN 1 ELSE 0]
    IN  IF st.last_run # 0 THEN st1
        ELSE Only({D71SetBamLoop(s, next) :
                   next \in {advanced(adv) :
                             adv \in {cbmimage_blockaddress_advance_in_track(
                                          s, st.block_next)}}})

cbmimage_i_d71_set_bam(s, f) ==
    LET start(block_current) ==
            [block_current |-> block_current,
             block_next |-> cbmimage_blockaddress_advance(s, block_current).block,
             last_run |-> 0, fat |-> f, ret |-> 0, out |-> {}]
    IN  Only({D71SetBamLoop(s, st) :
              st \in {start(block_current) :
                      block_current \in
                          {cbmimage_blockaddress_init_from_ts_value(
                               s, cbmimage_block_unused, 18 + 35, 0).block}}})

(* The for loop of cbmimage_i_d81_set_bam, which skips the area of the     *)
(* partition itself.                                                       *)
(* One pass of the for loop: the state after the pass, done = 1 once the   *)
(* loop has been left by break.                                            *)
D81SetBamStep(s, st) ==
    LET marked == cbmimage_fat_is_used(st.fat, st.block_current) # 0
        st1 == [st EXCEPT
                  !.ret = IF marked THEN -1 ELSE @,
                  !.out = IF marked
                          THEN @ \cup {[text |-> "Marking already marked block",
                                        start |-> s.block_subdir_first,
                                        at |-> st.block_current]}
                          ELSE @,
                  !.fat = cbmimage_fat_set(@, st.block_current, st.block_next)]
        advanced(adv) ==
            [st1 EXCEPT !.block_current = st.block_next,
                        !.block_next =
                            IF adv.ret # 0 THEN cbmimage_block_unused
                            ELSE IF adv.block.lba = s.block_subdir_first.lba
                                 THEN cbmimage_blockaddress_advance(
                                          s, s.block_subdir_last).block
                                 ELSE adv.block,
                        !.last_run = IF adv.ret # 0 THEN 1 ELSE 0]
    IN  IF st.done # 0 THEN st
        ELSE IF st.last_run # 0 THEN [st1 EXCEPT !.done = 1]
        ELSE Only({advanced(adv) :
                   adv \in {cbmimage_blockaddress_advance(s, st.block_next)}})

(* The for loop, as at most n passes: block_current moves to a higher      *)
(* block with every pass, so that the loop is left after no more passes    *)
(* than the image has blocks, plus one.                                    *)
RECURSIVE D81SetBamLoop(_, _, _)
D81SetBamLoop(s, st, n) ==
    IF n = 0 \/ st.done # 0 THEN st
    ELSE IF n = 1 THEN D81SetBamStep(s, st)
    ELSE Only({D81SetBamLoop(s, half, n - n \div 2) :
               half \in {D81SetBamLoop(s, st, n \div 2)}})

(* Outside of a partition the function leaves the FAT alone and yields 0.  *)
cbmimage_i_d81_set_bam(s, f) ==
    LET start(block_current) ==
            [block_current |-> block_current,
             block_next |-> cbmimage_blockaddress_advance(s, block_current).block,
             last_run |-> 0, done |-> 0, fat |-> f, ret |-> 0, out |-> {}]
        result(st) == [ret |-> st.ret, fat |-> st.fat, out |-> st.out]
    IN  IF s.subdir_global_addressing # 0 /\ s.block_subdir_first.lba > 0
        THEN Only({result(D81SetBamLoop(s, st, cbmimage_get_max_lba(s) + 1)) :
                   st \in {start(block_current) :
                           block_current \in
                               {cbmimage_blockaddress_init_from_ts_value(
                                    s, cbmimage_block_unused, 1, 0).block}}})
        ELSE [ret |-> 0, fat |-> f, out |-> {}]

----------------------------------------------------------------------------
(* validate.c.  f is the FAT object image->settings->fat; every function   *)
(* yields the FAT and the diagnostics it leaves besides its return value.  *)
(* Directory entries of type REL and GEOS entries are not among the images *)
(* used here; cbmimage_i_validate_rel_file and                             *)
(* cbmimage_i_validate_geos_file are not modelled.                         *)

(* loop_detector <<>> is NULL.                                             *)
cbmimage_i_mark_global_and_local(s, f, loop_detector, block_start, block_current, block_target) ==
    LET result(mark, marked) ==
            [ret |-> IF mark.ret # 0 \/ marked THEN -1 ELSE 0,
             loop_detector |-> mark.loop,
             fat |-> cbmimage_fat_set(f, block_current, block_target),
             out |-> (IF mark.ret # 0
                      THEN {[text |-> "Found loop", start |-> block_start,
                             at |-> block_current]}
                      ELSE {})
                     \cup
                     (IF marked
                      THEN {[text |-> "Marking already marked block",
                             start |-> block_start, at |-> block_current]}
                      ELSE {})]
    IN  Only({result(mark, marked) :
              mark \in {IF loop_detector # <<>>
                        THEN cbmimage_loop_mark(s, loop_detector, block_current)
                        ELSE [ret |-> 0, loop |-> loop_detector]},
              marked \in {cbmimage_fat_is_used(f, block_current) # 0}})

(* The for loop of cbmimage_i_validate_follow_chain; its state is [chain,  *)
(* loop_detector, fat, ret, count, out].                                   *)
RECURSIVE ValidateFollowChainLoop(_, _, _, _)
ValidateFollowChainLoop(s, d, block_start, st) ==
    LET marked(m) ==
            [chain |-> cbmimage_chain_advance(s, d, st.chain).chain,
             loop_detector |-> m.loop_detector,
             fat |-> m.fat,
             ret |-> IF m.ret # 0 THEN -1 ELSE st.ret,
             count |-> st.count + 1,
             out |-> st.out \cup m.out]
    IN  IF cbmimage_chain_is_done(st.chain) # 0 THEN st
        ELSE Only({ValidateFollowChainLoop(s, d, block_start, next) :
                   next \in {marked(m) :
                             m \in {cbmimage_i_mark_global_and_local(
                                        s, st.fat, st.loop_detector, block_start,
                                        cbmimage_chain_get_current(st.chain),
                                        cbmimage_chain_get_next(s, d, st.chain))}}})

(* [ret, fat, count, out]; count is what is added to *count_blocks.        *)
cbmimage_i_validate_follow_chain(s, d, f, block_start) ==
    LET done(st) == [ret |-> IF st.ret > 0 THEN 0 ELSE st.ret,
                     fat |-> st.fat, count |-> st.count, out |-> st.out]
    IN  Only({done(st) :
              st \in {ValidateFollowChainLoop(s, d, block_start, st0) :
                      st0 \in {[chain |-> cbmimage_chain_start(s, d, block_start),
                                loop_detector |-> cbmimage_loop_create(s),
                                fat |-> f, ret |-> 0, count |-> 0, out |-> {}]}}})

(* The for loop of cbmimage_i_validate_1581_partition; its state is        *)
(* [block_current, block_next, count, fat, ret, out].                      *)
RECURSIVE Validate1581PartitionLoop(_, _, _)
Validate1581PartitionLoop(s, block_start, st) ==
    LET block_next == IF st.count = 1 THEN cbmimage_block_unused ELSE st.block_next
        marked(m, adv) ==
            [block_current |-> adv.block,
             block_next |-> IF st.count # 1
                            THEN cbmimage_blockaddress_advance(s, block_next).block
                            ELSE block_next,
             count |-> st.count - 1,
             fat |-> m.fat,
             ret |-> IF m.ret # 0 \/ adv.ret # 0 THEN -1 ELSE st.ret,
             out |-> st.out \cup m.out \cup
                     (IF adv.ret # 0
                      THEN {[text |-> "Partition exceeds the end of disk",
                             start |-> block_start, at |-> st.block_current]}
                      ELSE {})]
    IN  IF ~(st.count > 0) THEN st
        ELSE Only({Validate1581PartitionLoop(s, block_start, next) :
                   next \in {marked(m, adv) :
                             m \in {cbmimage_i_mark_global_and_local(
                                        s, st.fat, <<>>, block_start,
                                        st.block_current, block_next)},
                             adv \in {cbmimage_blockaddress_advance(
                                          s, st.block_current)}}})

cbmimage_i_validate_1581_partition(s, f, block_start, count) ==
    LET done(st) == [ret |-> st.ret, fat |-> st.fat, out |-> st.out]
    IN  Only({done(st) :
              st \in {Validate1581PartitionLoop(s, block_start, st0) :
                      st0 \in {[block_current |-> block_start,
                                block_next |-> cbmimage_blockaddress_advance(
                                                   s, block_start).block,
                                count |-> count, fat |-> f, ret |-> 0, out |-> {}]}}})

(* The do loop starts at 1/0 and goes on as long as                        *)
(* cbmimage_blockaddress_advance succeeds: on a frame without relative     *)
(* addressing it visits the blocks with the LBAs 1..max_lba.  ret is never *)
(* assigned after its initialisation.                                      *)
cbmimage_i_bam_check_equality(s, d, f) ==
    LET compared(b, is_marked_in_loop, is_used_in_bam) ==
            IF is_marked_in_loop /\ ~is_used_in_bam
            THEN {[text |-> "Block is marked as used, but the BAM tells us it is empty",
                   at |-> b]}
            ELSE IF ~is_marked_in_loop /\ is_used_in_bam
            THEN {[text |-> "Block is not marked as used, but the BAM tells us it is used",
                   at |-> b]}
            ELSE {}
        finding(b) ==
            Only({compared(b, is_marked_in_loop, is_used_in_bam) :
                  is_marked_in_loop \in {cbmimage_fat_is_used(f, b) # 0},
                  is_used_in_bam \in {cbmimage_bam_get(s, d, b) = BAM_USED}})
    IN  [ret |-> 0,
         out |-> UNION {finding(b) :
                        b \in {CBMIMAGE_BLOCK_SET_FROM_LBA(s, cbmimage_block_unused, lba) :
                               lba \in 1..cbmimage_get_max_lba(s)}}]

(* The function has no return statement: the value its caller reads is     *)
(* not the ret it has computed but whatever the build leaves in the return *)
(* register, here the parameter garbage.                                   *)
cbmimage_i_validate_process_file(s, d, f, dir_entry, garbage) ==
    LET partition(r) ==
            [ret |-> IF r.ret # 0 THEN 1 ELSE 0, fat |-> r.fat,
             block_count |-> dir_entry.block_count, out |-> r.out]
        followed(r) ==
            [ret |-> IF r.ret # 0 THEN 1 ELSE 0, fat |-> r.fat,
             block_count |-> r.count, out |-> r.out]
        walked ==
            IF dir_entry.type \in {DIR_TYPE_PART_D64, DIR_TYPE_PART_D71,
                                   DIR_TYPE_PART_D81, DIR_TYPE_PART1581}
            THEN {partition(r) :
                  r \in {cbmimage_i_validate_1581_partition(
                             s, f, dir_entry.start_block, dir_entry.block_count)}}
            ELSE IF dir_entry.type = DIR_TYPE_CMD_NATIVE
            THEN {[ret |-> 0, fat |-> f, block_count |-> 0, out |-> {}]}
            ELSE {followed(r) :
                  r \in {cbmimage_i_validate_follow_chain(
                             s, d, f, dir_entry.start_block)}}
        counted(w) ==
            IF dir_entry.block_count # w.block_count
            THEN [ret |-> garbage, fat |-> w.fat,
                  out |-> w.out \cup {[text |-> "File reports other block count than it occupies",
                                       start |-> dir_entry.start_block,
                                       reports |-> dir_entry.block_count,
                                       occupies |-> w.block_count]}]
            ELSE [ret |-> garbage, fat |-> w.fat, out |-> w.out]
    IN  Only({counted(w) : w \in walked})

(* image->settings->fct.set_bam(settings)                                  *)
FctSetBam(s, f) ==
    CASE s.fct.set_bam = "d71" -> cbmimage_i_d71_set_bam(s, f)
      [] s.fct.set_bam = "d81" -> cbmimage_i_d81_set_bam(s, f)

(* The for loop over the directory; its state is [dei, fat, ret, out, n],  *)
(* n the number of files processed so far.  garbage[n] is what the n-th    *)
(* call of cbmimage_i_validate_process_file returns.                       *)
RECURSIVE ValidateDirLoop(_, _, _, _)
ValidateDirLoop(s, d, garbage, st) ==
    LET processed(p) ==
            [dei |-> cbmimage_dir_get_next(s, d, st.dei).dei,
             fat |-> p.fat,
             ret |-> IF p.ret # 0 \/ st.ret # 0 THEN 1 ELSE 0,
             out |-> st.out \cup p.out,
             n   |-> st.n + 1]
        next_state ==
            IF cbmimage_dir_is_deleted(st.dei) # 0
            THEN {[st EXCEPT !.dei = cbmimage_dir_get_next(s, d, st.dei).dei]}
            ELSE {processed(p) :
                  p \in {cbmimage_i_validate_process_file(
                             s, d, st.fat, st.dei.entry,
                             garbage[Min(st.n + 1, Len(garbage))])}}
    IN  IF cbmimage_dir_get_is_valid(st.dei) = 0 THEN st
        ELSE Only({ValidateDirLoop(s, d, garbage, next) : next \in next_state})

(* The steps of cbmimage_validate, each working on [ret, fat, out].         *)

(* ret = cbmimage_i_validate_follow_chain(image, b, NULL)                  *)
ValidateChainFrom(s, d, st, b) ==
    Only({[ret |-> r.ret, fat |-> r.fat, out |-> st.out \cup r.out] :
          r \in {cbmimage_i_validate_follow_chain(s, d, st.fat, b)}})

(* ret = cbmimage_bam_check_consistency(image)                             *)
ValidateConsistency(s, d, fat0) ==
    Only({[ret |-> r.ret, fat |-> fat0, out |-> r.out] :
          r \in {cbmimage_bam_check_consistency(s, d)}})

(* mark the info block                                                     *)
ValidateInfo(s, d, st) ==
    IF st.ret = 0 THEN ValidateChainFrom(s, d, st, s.info) ELSE st

(* mark the BAM blocks, if they are not part of the info chain             *)
ValidateBam(s, d, st) ==
    IF st.ret = 0 /\ s.bam_ref # 0 /\ cbmimage_fat_is_used(st.fat, s.bam[1].block) = 0
    THEN ValidateChainFrom(s, d, st, s.bam[1].block) ELSE st

(* mark the GEOS border block                                              *)
ValidateGeos(s, d, st) ==
    IF st.ret = 0 /\ s.geos_border.lba # 0
    THEN ValidateChainFrom(s, d, st, s.geos_border) ELSE st

(* the loop over the directory                                             *)
ValidateFiles(s, d, garbage, st) ==
    Only({[ret |-> r.ret, fat |-> r.fat, out |-> r.out] :
          r \in {ValidateDirLoop(s, d, garbage, st0) :
                 st0 \in {[dei |-> cbmimage_dir_get_first(s, d),
                           fat |-> st.fat, ret |-> st.ret,
                           out |-> st.out, n |-> 0]}}})

(* if (settings->fct.set_bam) ret = settings->fct.set_bam(settings)        *)
ValidateSetBam(s, st) ==
    IF s.fct.set_bam # ""
    THEN Only({[ret |-> r.ret, fat |-> r.fat, out |-> st.out \cup r.out] :
               r \in {FctSetBam(s, st.fat)}})
    ELSE st

(* ret = cbmimage_i_bam_check_equality(image) | ret                        *)
ValidateEquality(s, d, st) ==
    Only({[ret |-> IF r.ret = 0 THEN st.ret ELSE -1,
           fat |-> st.fat, out |-> st.out \cup r.out] :
          r \in {cbmimage_i_bam_check_equality(s, d, st.fat)}})

(* [ret, fat, out] of cbmimage_validate; f is the object settings->fat     *)
(* points to on entry.                                                     *)
cbmimage_validate(s, d, f, garbage) ==
    IF s.is_partition_table = 0
    THEN Only({ValidateEquality(s, d, st6) :
               st6 \in {ValidateSetBam(s, st5) :
               st5 \in {ValidateFiles(s, d, garbage, st4) :
               st4 \in {ValidateGeos(s, d, st3) :
               st3 \in {ValidateBam(s, d, st2) :
               st2 \in {ValidateInfo(s, d, st1) :
               st1 \in {ValidateConsistency(s, d, fat0) :
               fat0 \in {IF s.fat = 0 THEN cbmimage_fat_create(s) ELSE f}}}}}}}})
    ELSE Only({ValidateSetBam(s, [ret |-> 0, fat |-> fat0, out |-> {}]) :
               fat0 \in {IF s.fat = 0 THEN cbmimage_fat_create(s) ELSE f}})

----------------------------------------------------------------------------
(* SpecValidate: a caller that opens a D64, D71 or D81 image and validates  *)
(* it.  A D64 or D71 image is zero but for the BAM entry of track 1, the    *)
(* first slot of the first directory block and the link of block 1/0 (a    *)
(* D71 image has fewer of these than a D64 image has); a                   *)
(* D81 image is zero but for the GEOS text of the info block and the link  *)
(* of the first BAM block.                                                 *)

MaxProcessedFiles == 1

(* The bytes values at the given offset of a block, as a piece of an image.*)
BlockBytes(s, track, sector, offset, values) ==
    LET base == cbmimage_i_get_address_of_block(
                    s, CBMIMAGE_BLOCK_SET_FROM_TS(s, cbmimage_block_unused, track, sector))
    IN  [a \in {base + offset + i - 1 : i \in 1..Len(values)} |->
            values[a - base - offset + 1]]

(* A directory slot with the given type byte, start block and block count; *)
(* <<>> is a slot of zeros.                                                *)
DirSlot(s, n, e) ==
    IF e = <<>> THEN <<>>
    ELSE BlockBytes(s, s.dir.track, s.dir.sector,
                    n * CBMIMAGE_DIR_ENTRY.NEXT_ONE + CBMIMAGE_DIR_ENTRY.TYPE_OFFSET,
                    <<e[1], e[2], e[3]>>)
         @@ BlockBytes(s, s.dir.track, s.dir.sector,
                       n * CBMIMAGE_DIR_ENTRY.NEXT_ONE + CBMIMAGE_DIR_ENTRY.BLOCK_COUNT_LOW,
                       <<e[4]>>)

BamTrack1Choices == {<<0, 0>>, <<1, 1>>, <<2, 1>>}

FirstSlotChoices == {<<>>, <<130, 1, 0, 1>>, <<130, 1, 0, 2>>, <<133, 1, 0, 2>>}

FileLinkChoices == {<<0, 255>>, <<1, 0>>, <<1, 1>>}

(* "GEOS format V1." as the bytes of geos_text                              *)
geos_text == <<71, 69, 79, 83, 32, 102, 111, 114, 109, 97, 116, 32, 86, 49, 46>>

(* settings->is_geos = cbmimage_i_d81_get_geos_infoblock(settings): the     *)
(* border block is taken from the info block when it carries the GEOS text. *)
cbmimage_i_d81_get_geos_infoblock(s, d) ==
    LET base == cbmimage_i_get_address_of_block(s, s.info)
    IN  IF \A i \in 1..Len(geos_text) : ByteAt(d, base + 173 + i - 1) = geos_text[i]
        THEN [s EXCEPT !.geos_border =
                 CBMIMAGE_BLOCK_SET_FROM_TS(s, s.geos_border,
                     ByteAt(d, base + 171), ByteAt(d, base + 172))]
        ELSE s

(* <<>>: no GEOS text in the info block; else the border block it names.   *)
GeosChoices == {<<>>, <<1, 1>>}

(* The link of the first BAM block of a D81 image, 40/1.                   *)
BamLinkChoices == {<<0, 255>>, <<40, 0>>}

GeosInfo(s, geos) ==
    IF geos = <<>> THEN <<>>
    ELSE BlockBytes(s, s.info.track, s.info.sector, 171, geos \o geos_text)

ValidateImages(s) ==
    IF s.imagetype = "D81"
    THEN {BlockBytes(s, s.info.track, s.info.sector, 0, <<0, 255>>)
          @@ GeosInfo(s, geos)
          @@ BlockBytes(s, s.bam[1].block.track, s.bam[1].block.sector, 0, bam_link) :
             geos \in GeosChoices, bam_link \in BamLinkChoices}
    ELSE {BlockBytes(s, s.info.track, s.info.sector, 0, <<0, 255>>)
          @@ (CounterAddress(s, 1) :> bam[1]) @@ (MaskAddress(s, 1) :> bam[2])
          @@ DirSlot(s, 0, first)
          @@ BlockBytes(s, 1, 0, 0, file_link) :
             bam \in BamTrack1Choices,
             first \in IF s.imagetype = "D71"
                       THEN {<<>>, <<130, 1, 0, 1>>} ELSE FirstSlotChoices,
             file_link \in IF s.imagetype = "D71"
                           THEN {<<0, 255>>} ELSE FileLinkChoices}

InitValidate ==
    /\ \E s \in {cbmimage_i_fileimage_create(t) : t \in {"D64", "D71", "D81"}} :
          /\ data \in ValidateImages(s)
          /\ settings = IF s.imagetype = "D81"
                        THEN cbmimage_i_d81_get_geos_infoblock(s, data) ELSE s
    /\ fat = NoFat
    /\ out = {}
    /\ ret = 0
    /\ call = NoCall
    /\ block = cbmimage_block_unused
    /\ walk = -1
    /\ written = <<>>
    /\ NoFileOpen
    /\ NoChdir

(* ret = cbmimage_validate(image), on an image that has not been validated *)
(* before (the function asserts settings->fat == NULL).                    *)
Validate ==
    /\ settings.fat = 0
    /\ \E garbage \in [1..MaxProcessedFiles -> {0, 1}] :
       \E r \in {cbmimage_validate(settings, data, fat, garbage)} :
          /\ settings' = [settings EXCEPT !.fat = 1]
          /\ fat' = r.fat
          /\ ret' = r.ret
          /\ out' = r.out
    /\ call' = [fn |-> "cbmimage_validate", block |-> cbmimage_block_unused]
    /\ UNCHANGED <<data, validateIdle>>

(* ret = cbmimage_validate(image) once more, on the same image and frame.  *)
(* settings->fat is released by cbmimage_image_close only, so that the     *)
(* assertion settings->fat == NULL fails: a build with assertions aborts,  *)
(* a build without them (NDEBUG) goes on with the FAT of the first run.    *)
ValidateAgain ==
    /\ settings.fat # 0
    /\ call.fn = "cbmimage_validate"
    /\ \/ /\ call' = [fn |-> "abort", block |-> cbmimage_block_unused]
          /\ UNCHANGED <<settings, fat, ret, out>>
       \/ /\ \E garbage \in [1..MaxProcessedFiles -> {0, 1}] :
             \E r \in {cbmimage_validate(settings, data, fat, garbage)} :
                /\ fat' = r.fat
                /\ ret' = r.ret
                /\ out' = r.out
          /\ call' = [fn |-> "cbmimage_validate again", block |-> cbmimage_block_unused]
          /\ UNCHANGED settings
    /\ UNCHANGED <<data, validateIdle>>

NextValidate == Validate \/ ValidateAgain

SpecValidate == InitValidate /\ [][NextValidate]_vars

(* C1: cbmimage_validate returns zero if and only if every check it        *)
(* performed passed, i.e. if and only if the run has reported no finding   *)
(* (BAM inconsistency, loop or duplicate link, block count mismatch,       *)
(* post-pass conflict, FAT/BAM divergence).                                *)
C1_ZeroIffNoFinding ==
    call.fn = "cbmimage_validate" => ((ret = 0) <=> (out = {}))

(* The first directory slot holds a closed PRG file that starts at 1/0,    *)
(* and the link of block 1/0 names 1/0 itself.                             *)
SelfLinkedFile ==
    LET slot == cbmimage_i_get_address_of_block(settings, settings.dir)
        first == cbmimage_i_get_address_of_block(
                     settings, CBMIMAGE_BLOCK_SET_FROM_TS(settings, cbmimage_block_unused, 1, 0))
    IN  /\ ByteAt(data, slot + CBMIMAGE_DIR_ENTRY.TYPE_OFFSET) = 130
        /\ ByteAt(data, slot + CBMIMAGE_DIR_ENTRY.TRACK_OFFSET) = 1
        /\ ByteAt(data, slot + CBMIMAGE_DIR_ENTRY.SECTOR_OFFSET) = 0
        /\ ByteAt(data, first) = 1
        /\ ByteAt(data, first + 1) = 0

(* C14: when the chain of a file links back to a block already on that     *)
(* chain, cbmimage_validate reports a loop for that chain, with the start  *)
(* block of the chain as the root of the loop.                             *)
C14_LoopReported ==
    (call.fn = "cbmimage_validate" /\ SelfLinkedFile)
        => \E o \in out :
              /\ o.text = "Found loop"
              /\ o.start = CBMIMAGE_BLOCK_SET_FROM_TS(settings, cbmimage_block_unused, 1, 0)

(* C15: cbmimage_validate does not stop at the first anomaly: on a frame   *)
(* that is not a partition table the chain of the info block, the chain of *)
(* the BAM block, the chain of the GEOS border block when there is one and *)
(* every non-deleted directory entry are processed (their blocks are       *)
(* marked in the FAT), also when an earlier step has detected an error.    *)
C15_EveryStepProcessed ==
    (call.fn = "cbmimage_validate" /\ settings.is_partition_table = 0)
        => /\ cbmimage_fat_is_used(fat, settings.info) # 0
           /\ cbmimage_fat_is_used(fat, settings.bam[1].block) # 0
           /\ settings.geos_border.lba # 0
                 => cbmimage_fat_is_used(fat, settings.geos_border) # 0
           /\ \A dei \in {cbmimage_dir_get_first(settings, data)} :
                 (cbmimage_dir_get_is_valid(dei) # 0 /\ cbmimage_dir_is_deleted(dei) = 0)
                     => cbmimage_fat_is_used(fat, dei.entry.start_block) # 0

(* C16: validator idempotence: cbmimage_validate can be run twice in a row *)
(* on the same unchanged image and frame; the second run completes and     *)
(* leaves the FAT with the contents it had after the first run.            *)
C16_ValidatorIdempotence ==
    [][call.fn = "cbmimage_validate"
           => (call'.fn = "cbmimage_validate again" /\ fat' = fat)]_vars

(* SpecPartition: a caller that opens a D81 image of zeros, enters one     *)
(* partition of the root directory, validates the image at once and reads  *)
(* entries of the FAT.  The directory of the partition holds no file, so   *)
(* that no file is processed and the register of                           *)
(* cbmimage_i_validate_process_file is never read.                         *)

(* First track and block count of the partitions of the root directory.   *)
PartitionChoices == {<<1, 40>>, <<2, 40>>, <<41, 80>>}

(* The blocks whose FAT entry the caller reads.                            *)
InspectedBlocks(s) ==
    {CBMIMAGE_BLOCK_SET_FROM_TS(s, cbmimage_block_unused, track, sector) :
        track \in {1, 2, 3, 80}, sector \in 0..9}

InitPartition ==
    /\ settings = cbmimage_i_fileimage_create("D81")
    /\ data = <<>>
    /\ fat = NoFat
    /\ out = {}
    /\ ret = 0
    /\ call = NoCall
    /\ block = cbmimage_block_unused
    /\ walk = -1
    /\ written = <<>>
    /\ NoFileOpen
    /\ NoChdir

(* ret = cbmimage_dir_chdir(dir_entry), dir_entry a partition of the root  *)
(* directory.                                                              *)
EnterPartition ==
    /\ next_settings = <<>>
    /\ \E p \in PartitionChoices :
       \E dir_entry \in {DirectoryEntry(settings, 5, p[1], 0, p[2])} :
       \E r \in {cbmimage_dir_chdir(settings, next_settings, data, dir_entry)} :
          /\ settings' = r.settings
          /\ next_settings' = r.next_settings
          /\ ret' = r.error
          /\ out' = r.out
          /\ before' = IF r.error = 0 THEN <<settings>> \o before ELSE before
          /\ entered' = IF r.error = 0 THEN <<dir_entry>> \o entered ELSE entered
          /\ call' = [fn |-> "cbmimage_dir_chdir", block |-> dir_entry.start_block]
    /\ UNCHANGED <<data, chdirIdle>>

(* ret = cbmimage_validate(image), right after the partition was entered.  *)
ValidatePartition ==
    /\ settings.fat = 0
    /\ call.fn = "cbmimage_dir_chdir"
    /\ ret = 0
    /\ \E r \in {cbmimage_validate(settings, data, fat,
                                    [n \in 1..MaxProcessedFiles |-> 0])} :
          /\ settings' = [settings EXCEPT !.fat = 1]
          /\ fat' = r.fat
          /\ ret' = r.ret
          /\ out' = r.out
    /\ call' = [fn |-> "cbmimage_validate", block |-> cbmimage_block_unused]
    /\ UNCHANGED <<data, validateIdle>>

(* ret = cbmimage_fat_is_used(settings->fat, b), after the validation.     *)
PartitionFatIsUsed ==
    /\ fat # NoFat
    /\ \E b \in InspectedBlocks(settings) :
          /\ ret' = cbmimage_fat_is_used(fat, b)
          /\ call' = [fn |-> "cbmimage_fat_is_used", block |-> b]
    /\ UNCHANGED <<settings, block, walk, fatVars, imageVars, fileVars, chdirVars, loopVars,
                   dirVars, countVars>>

NextPartition == EnterPartition \/ ValidatePartition \/ PartitionFatIsUsed

SpecPartition == InitPartition /\ [][NextPartition]_vars

(* C24: when validate has run with a 1581 partition active, the FAT marks  *)
(* every block outside block_subdir_first..block_subdir_last as used, and  *)
(* inside that range no block but the two the chains of the partition's    *)
(* header have walked (the info block and the first BAM block of the empty *)
(* partition), wherever the partition lies in the image.                   *)
C24_PostPassMarksOutside ==
    (call.fn = "cbmimage_validate" /\ next_settings # <<>>)
        => \A lba \in 1..cbmimage_get_max_lba(settings) :
              IF lba < settings.block_subdir_first.lba \/ lba > settings.block_subdir_last.lba
              THEN fat[lba] # CBMIMAGE_FAT_UNUSED
              ELSE lba \in {settings.info.lba, settings.bam[1].block.lba}
                   \/ fat[lba] = CBMIMAGE_FAT_UNUSED

----------------------------------------------------------------------------
(* SpecConvert: a caller that opens an image of any type and converts      *)
(* track/sector pairs and LBAs, existing or not, into block addresses.     *)
(* track and sector are uint8_t, the LBA is uint16_t.                      *)

TrackInputs(s) ==
    {0, 1, 18, cbmimage_get_max_track(s), cbmimage_get_max_track(s) + 1, 255} \cap 0..255

SectorInputs(s, track) ==
    {0, cbmimage_get_sectors_in_track(s, track) - 1,
     cbmimage_get_sectors_in_track(s, track), 255} \cap 0..255

LbaInputs(s) ==
    {0, 1, cbmimage_get_max_lba(s), cbmimage_get_max_lba(s) + 1, 65535} \cap 0..65535

InitConvert ==
    /\ settings \in {cbmimage_i_fileimage_create(t) : t \in ImageTypes}
    /\ block = cbmimage_block_unused
    /\ ret = 0
    /\ call = NoCall
    /\ walk = -1
    /\ fat = NoFat
    /\ written = <<>>
    /\ data = <<>>
    /\ out = {}
    /\ NoFileOpen
    /\ NoChdir

(* ret = cbmimage_blockaddress_init_from_ts_value(image, &block, track,    *)
(* sector)                                                                 *)
FromTs ==
    /\ \E track \in TrackInputs(settings) :
       \E sector \in SectorInputs(settings, track) :
       \E r \in {cbmimage_blockaddress_init_from_ts_value(settings, block, track, sector)} :
          /\ block' = r.block
          /\ ret' = r.ret
          /\ call' = [fn |-> "from_ts", block |-> CBMIMAGE_BLOCK_INIT(track, sector, 0)]
    /\ UNCHANGED <<settings, walk, addrIdle>>

(* ret = cbmimage_blockaddress_init_from_lba_value(image, &block, lba)     *)
FromLba ==
    /\ \E lba \in LbaInputs(settings) :
       \E r \in {cbmimage_blockaddress_init_from_lba_value(settings, block, lba)} :
          /\ block' = r.block
          /\ ret' = r.ret
          /\ call' = [fn |-> "from_lba", block |-> CBMIMAGE_BLOCK_INIT(0, 0, lba)]
    /\ UNCHANGED <<settings, walk, addrIdle>>

NextConvert == FromTs \/ FromLba

SpecConvert == InitConvert /\ [][NextConvert]_vars

(* C12: from_ts(t, s) fails whenever t = 0, t > max_tracks or              *)
(* s >= sectors_in_track(t), on every image type, and succeeds only for a  *)
(* track/sector pair that exists on the active frame.                      *)
C12_FromTsOutOfRange ==
    call.fn = "from_ts"
        => ((ret # 0) <=> \/ call.block.track = 0
                          \/ call.block.track > cbmimage_get_max_track(settings)
                          \/ call.block.sector >=
                                 cbmimage_get_sectors_in_track(settings, call.block.track))

(* C13: from_lba(l) fails whenever l = 0 or l > max_lba, on every image    *)
(* type; when it succeeds, the track is not 0 and the sector is below      *)
(* sectors_in_track of the track.                                          *)
C13_FromLbaOutOfRange ==
    call.fn = "from_lba"
        => /\ (call.block.lba = 0 \/ call.block.lba > cbmimage_get_max_lba(settings))
                  => ret # 0
           /\ ret = 0
                  => /\ block.track # 0
                     /\ block.sector < cbmimage_get_sectors_in_track(settings, block.track)

----------------------------------------------------------------------------
(* SpecFree: a caller that opens an image with one or two directory tracks *)
(* and asks for the number of free blocks.  The image is zero but for the  *)
(* counters of track 1 and of two more tracks: the directory tracks, or    *)
(* the directory track and track 2.                                        *)

FreeImageTypes == {"D64", "D71", "D80", "D82"}

FreeCounterChoices == {0, 1, 2}

FreeTracks(s) ==
    <<1, s.dir_tracks[1], IF s.dir_tracks[2] # 0 THEN s.dir_tracks[2] ELSE 2>>

FreeData(s, counters) ==
    [a \in {CounterAddress(s, FreeTracks(s)[i]) : i \in 1..3} |->
        counters[CHOOSE i \in 1..3 : a = CounterAddress(s, FreeTracks(s)[i])]]

(* What a build may make of the unsequenced stores.                        *)
UbChoices == [increment_kept : {0, 1}, beyond : {<<0, 0>>, <<60, 0>>}]

InitFree ==
    /\ settings \in {cbmimage_i_fileimage_create(t) : t \in FreeImageTypes}
    /\ data \in {FreeData(settings, counters) :
                    counters \in [1..3 -> FreeCounterChoices]}
    /\ out = {}
    /\ NoFileOpen
    /\ NoChdir
    /\ ret = 0
    /\ call = NoCall
    /\ block = cbmimage_block_unused
    /\ walk = -1
    /\ fat = NoFat
    /\ written = <<>>

(* ret = cbmimage_get_blocks_free(image)                                   *)
GetBlocksFree ==
    /\ call.fn = ""
    /\ \E ub \in UbChoices : ret' = cbmimage_get_blocks_free(settings, data, ub)
    /\ call' = [fn |-> "cbmimage_get_blocks_free", block |-> cbmimage_block_unused]
    /\ out' = {}
    /\ UNCHANGED <<settings, data, bamIdle>>

NextFree == GetBlocksFree

SpecFree == InitFree /\ [][NextFree]_vars

(* C20: cbmimage_get_blocks_free returns the sum of the free counters of   *)
(* exactly the tracks of the active frame that are not directory tracks,   *)
(* on every format, also on those with two directory tracks (D71: 18 and   *)
(* 53; D80 and D82: 39 and 38).                                            *)
C20_BlocksFree ==
    call.fn = "cbmimage_get_blocks_free"
        => ret = BlocksFreeCount(settings, data, 1, cbmimage_get_max_track(settings),
                                 {settings.dir_tracks[1], settings.dir_tracks[2]})

----------------------------------------------------------------------------
(* SpecLoop: a caller that opens a D64 image, creates a loop detector and  *)
(* marks block addresses in it: the first MaxLoopLba blocks, the last      *)
(* block, the unused block address (LBA 0) and an address behind the last  *)
(* block.                                                                  *)

MaxLoopLba == 3

LoopBlocks(s) ==
    {CBMIMAGE_BLOCK_SET_FROM_LBA(s, cbmimage_block_unused, lba) :
        lba \in (1..MaxLoopLba) \cup {cbmimage_get_max_lba(s)}}
    \cup {cbmimage_block_unused,
          CBMIMAGE_BLOCK_INIT(0, 0, U16(cbmimage_get_max_lba(s) + 1))}

InitLoop ==
    /\ settings = cbmimage_i_fileimage_create("D64")
    /\ data = <<>>
    /\ out = {}
    /\ NoFileOpen
    /\ NoChdir
    /\ ret = 0
    /\ call = NoCall
    /\ block = cbmimage_block_unused
    /\ walk = -1
    /\ fat = NoFat
    /\ written = <<>>

(* loop = cbmimage_loop_create(image)                                      *)
LoopCreate ==
    /\ detector = NoLoop
    /\ detector' = cbmimage_loop_create(settings)
    /\ marks' = {}
    /\ ret' = 0
    /\ call' = [fn |-> "cbmimage_loop_create", block |-> cbmimage_block_unused]
    /\ UNCHANGED <<settings, block, walk, fatVars, imageVars, fileVars, chdirVars, dirVars, countVars>>

(* ret = cbmimage_loop_mark(loop, block)                                   *)
LoopMark ==
    /\ detector # NoLoop
    /\ \E b \in LoopBlocks(settings) :
          \E r \in {cbmimage_loop_mark(settings, detector, b)} :
             /\ detector' = r.loop
             /\ ret' = r.ret
             /\ marks' = marks \cup {b.lba}
             /\ call' = [fn |-> "cbmimage_loop_mark", block |-> b]
    /\ UNCHANGED <<settings, block, walk, fatVars, imageVars, fileVars, chdirVars, dirVars, countVars>>

NextLoop == LoopCreate \/ LoopMark

SpecLoop == InitLoop /\ [][NextLoop]_vars

(* C23, as stated: cbmimage_loop_mark returns true (non-zero) if and only  *)
(* if the block had been marked in this detector before the call, and      *)
(* false (zero) on the first mark of a block.                              *)
C23_Original ==
    [][call'.fn = "cbmimage_loop_mark"
           => ((ret' # 0) <=> (call'.block.lba \in marks))]_vars

(* C23, amended: for a block of the frame (LBA 1..max_lba)                 *)
(* cbmimage_loop_mark returns 1 if the block had been marked in this       *)
(* detector before the call and 0 on the first mark of the block; for a    *)
(* block address with LBA 0 or with an LBA beyond max_lba it returns -1, a *)
(* non-zero value, and leaves the detector as it is.                       *)
C23_MarkReturnsMarked ==
    [][call'.fn = "cbmimage_loop_mark"
           => IF call'.block.lba \in 1..cbmimage_get_max_lba(settings)
              THEN ret' = IF call'.block.lba \in marks THEN 1 ELSE 0
              ELSE ret' = -1 /\ detector' = detector]_vars

(* A block has been marked for the second time, after another block.       *)
C23_Witness ==
    /\ call.fn = "cbmimage_loop_mark"
    /\ ret = 1
    /\ {call.block.lba, cbmimage_get_max_lba(settings)} \subseteq marks
    /\ call.block.lba # cbmimage_get_max_lba(settings)

----------------------------------------------------------------------------
(* fileimage.c: opening an in-memory image.  SpecOpen: a caller that opens *)
(* a buffer of some size with or without a type hint.                      *)

TYPE_UNKNOWN == ""

cbmimage_i_get_number_of_blocks(imagetype) ==
    CASE imagetype = "D40" -> 683 + 7
      [] imagetype = "D64" -> 683
      [] imagetype = "D64_40TRACK" -> 683 + 5 * 17
      [] imagetype = "D64_42TRACK" -> 683 + 7 * 17
      [] imagetype = "D71" -> 683 * 2
      [] imagetype = "D81" -> 3200
      [] imagetype = "D80" -> 2083
      [] imagetype = "D82" -> 2083 * 2
      [] imagetype = "D1M" -> 3240
      [] imagetype = "D2M" -> 6480
      [] imagetype = "D4M" -> 12960
      [] OTHER -> 0

cbmimage_mapping_from_size_to_imagetype ==
    << [imagetype |-> "D64",         size |-> 174848,                  blocks |-> 683],
       [imagetype |-> "D64_40TRACK", size |-> 174848 + 5 * 17 * 256,   blocks |-> 683 + 5 * 17],
       [imagetype |-> "D64_42TRACK", size |-> 174848 + 7 * 17 * 256,   blocks |-> 683 + 7 * 17],
       [imagetype |-> "D40",         size |-> 174848 + 7 * 256,        blocks |-> 683 + 7],
       [imagetype |-> "D71",         size |-> 174848 * 2,              blocks |-> 683 * 2],
       [imagetype |-> "D81",         size |-> 819200,                  blocks |-> 3200],
       [imagetype |-> "D80",         size |-> 533248,                  blocks |-> 2083],
       [imagetype |-> "D82",         size |-> 533248 * 2,              blocks |-> 2083 * 2],
       [imagetype |-> "D1M",         size |-> 3240 * 256,              blocks |-> 3240],
       [imagetype |-> "D2M",         size |-> 3240 * 256 * 2,          blocks |-> 3240 * 2],
       [imagetype |-> "D4M",         size |-> 3240 * 256 * 4,          blocks |-> 3240 * 4] >>

(* [imagetype, extra_errormap]: the first entry of the table that the size *)
(* matches, without or with an error map.                                  *)
cbmimage_image_guesstype(size) ==
    LET mapping == cbmimage_mapping_from_size_to_imagetype
        hits == {i \in DOMAIN mapping :
                    \/ mapping[i].size = size
                    \/ mapping[i].size + mapping[i].blocks = size}
    IN  IF hits = {} THEN [imagetype |-> TYPE_UNKNOWN, extra_errormap |-> 0]
        ELSE LET i == CHOOSE h \in hits : \A g \in hits : h <= g
             IN  [imagetype |-> mapping[i].imagetype,
                  extra_errormap |-> IF mapping[i].size = size THEN 1 ELSE 0]

(* cbmimage_image_open(buffer, size, imagetype_hint), where the allocation *)
(* succeeds: [image, settings, size], image the handle (1) or NULL, size   *)
(* the value of parameter->size.                                           *)
cbmimage_image_open(size, imagetype_hint) ==
    LET guess == IF imagetype_hint = TYPE_UNKNOWN
                 THEN cbmimage_image_guesstype(size)
                 ELSE [imagetype |-> imagetype_hint, extra_errormap |-> 1]
        extra_errormap ==
            IF guess.extra_errormap # 0
            THEN cbmimage_i_get_number_of_blocks(guess.imagetype) ELSE 0
    IN  [image |-> 1,
         settings |-> cbmimage_i_fileimage_create(guess.imagetype),
         size |-> IF extra_errormap = 0
                  THEN size - cbmimage_i_get_number_of_blocks(guess.imagetype)
                  ELSE size]

(* The sizes cbmimage_image_guesstype knows.                               *)
KnownSizes ==
    {cbmimage_mapping_from_size_to_imagetype[i].size :
        i \in DOMAIN cbmimage_mapping_from_size_to_imagetype}
    \cup {cbmimage_mapping_from_size_to_imagetype[i].size
             + cbmimage_mapping_from_size_to_imagetype[i].blocks :
          i \in DOMAIN cbmimage_mapping_from_size_to_imagetype}

(* The known sizes, their neighbours and two small sizes.                  *)
SizeInputs == {0, 256} \cup {known + d : known \in KnownSizes, d \in {-1, 0, 1}}

InitOpen ==
    /\ settings = ZeroSettings
    /\ data = <<>>
    /\ out = {}
    /\ NoFileOpen
    /\ NoChdir
    /\ ret = 0
    /\ call = NoCall
    /\ block = cbmimage_block_unused
    /\ walk = -1
    /\ fat = NoFat
    /\ written = <<>>

(* image = cbmimage_image_open(buffer, size, imagetype_hint); ret is the   *)
(* handle.                                                                 *)
ImageOpen ==
    /\ call.fn = ""
    /\ \E size \in SizeInputs, imagetype_hint \in {TYPE_UNKNOWN} \cup ImageTypes :
          \E r \in {cbmimage_image_open(size, imagetype_hint)} :
             /\ settings' = r.settings
             /\ ret' = r.image
             /\ call' = [fn |-> "cbmimage_image_open", block |-> cbmimage_block_unused,
                         size |-> size, imagetype_hint |-> imagetype_hint,
                         parameter_size |-> r.size]
    /\ UNCHANGED <<block, walk, addrIdle>>

NextOpen == ImageOpen

SpecOpen == InitOpen /\ [][NextOpen]_vars

(* C22: opening a buffer with the type hint 'unknown' and a length that is *)
(* neither the size of a known image type nor that size plus the block     *)
(* count of the type (an error map) fails: the caller gets no image        *)
(* handle.                                                                 *)
C22_UnknownSizeFails ==
    (/\ call.fn = "cbmimage_image_open"
     /\ call.imagetype_hint = TYPE_UNKNOWN
     /\ call.size \notin KnownSizes)
        => ret = NULL


----------------------------------------------------------------------------
(* SpecWrite: a caller that opens an image of zeros and writes blocks of   *)
(* the root frame with cbmimage_write_block, as check_lba of               *)
(* tests/image_d64.c does.                                                 *)

MaxWrittenBlocks == 2

WriteImageTypes == {"D64", "D71", "D81", "D1M", "D2M"}

(* The LBAs of the blocks the caller writes.                               *)
WriteLbas(s) == {1, 2, 33, cbmimage_get_max_lba(s)}

(* The contents the caller writes: the pattern of check_lba, or a block of *)
(* 0xAA.                                                                   *)
WritePattern(b, kind) ==
    IF kind = 1
    THEN <<b.track, b.sector, 255, 255, b.lba % 256, (b.lba \div 256) % 256>>
         \o Rep(250, 0)
    ELSE Rep(256, 170)

InitWrite ==
    /\ settings \in {cbmimage_i_fileimage_create(t) : t \in WriteImageTypes}
    /\ data = <<>>
    /\ out = {}
    /\ ret = 0
    /\ call = NoCall
    /\ block = cbmimage_block_unused
    /\ walk = -1
    /\ fat = NoFat
    /\ written = <<>>
    /\ NoFileOpen
    /\ NoChdir

(* ret = cbmimage_write_block(image, b, buffer, sizeof buffer)             *)
WriteBlock ==
    /\ Cardinality(DOMAIN data) < MaxWrittenBlocks * cbmimage_get_bytes_in_block(settings)
    /\ \E lba \in WriteLbas(settings), kind \in {1, 2} :
       \E b \in {CBMIMAGE_BLOCK_SET_FROM_LBA(settings, cbmimage_block_unused, lba)} :
       \E buf \in {WritePattern(b, kind)} :
       \E r \in {cbmimage_write_block(settings, data, b, buf, Len(buf))} :
          /\ data' = r.data
          /\ ret' = r.ret
          /\ buffer' = buf
          /\ call' = [fn |-> "cbmimage_write_block", block |-> b]
    /\ UNCHANGED <<settings, block, walk, fatVars, out, chain, file, delivered, visited,
                   chdirVars, loopVars, dirVars, countVars>>

NextWrite == WriteBlock

SpecWrite == InitWrite /\ [][NextWrite]_vars

(* after is before but for the bytes_in_block bytes at offset, which are   *)
(* the bytes of buf.                                                       *)
OverwritesExactly(before_image, after, offset, buf) ==
    \A a \in DOMAIN before_image \cup DOMAIN after \cup (offset..(offset + 255)) :
        ByteAt(after, a) = IF a \in offset..(offset + 255)
                           THEN buf[a - offset + 1]
                           ELSE ByteAt(before_image, a)

WriteOffset(s, b) ==
    IF s.subdir_relative_addressing # 0
    THEN IF b.lba >= 1 /\ b.lba < s.block_subdir_last.lba
            /\ b.lba + s.block_subdir_first.lba - 1 <= cbmimage_get_max_lba(s)
         THEN (b.lba + s.block_subdir_first.lba - 2) * 256
         ELSE NULL
    ELSE IF b.lba \in 1..cbmimage_get_max_lba(s) THEN (b.lba - 1) * 256 ELSE NULL

----------------------------------------------------------------------------
(* SpecMissing: a caller that opens a D64 image of zeros, opens a file     *)
(* from a directory entry whose start block the image does not have, and   *)
(* reads from it.  dir.c builds the start block of an entry with           *)
(* CBMIMAGE_BLOCK_SET_FROM_TS from the two bytes of the directory slot.    *)
(* cbmimage_blockaccessor_set_to leaves the accessor without data for such *)
(* a block, and cbmimage_chain_last_result reads accessor->data[0] and     *)
(* accessor->data[1] all the same (the assertion accessor->data != NULL is *)
(* compiled out).  The read through the null pointer is undefined: the     *)
(* process is killed, or the read yields whatever the address holds, which *)
(* is part of data here.                                                   *)

(* Track and sector of the start blocks: track 0, a track beyond           *)
(* max_tracks, a sector beyond the sectors of the track.                   *)
MissingNames == {<<0, 0>>, <<0, 5>>, <<36, 0>>, <<255, 255>>, <<1, 21>>, <<1, 30>>, <<35, 17>>}

MissingStartBlocks(s) ==
    {CBMIMAGE_BLOCK_SET_FROM_TS(s, cbmimage_block_unused, ts[1], ts[2]) : ts \in MissingNames}

(* What NULL[0] and NULL[1] hold, if the read comes back.                  *)
NullReads == {<<0, 0>>, <<0, 1>>, <<0, 255>>, <<1, 0>>, <<36, 0>>}

NullPage(bytes) == [a \in {NULL, NULL + 1} |-> bytes[a - NULL + 1]]

InitMissing ==
    /\ settings = cbmimage_i_fileimage_create("D64")
    /\ data \in {NullPage(bytes) : bytes \in NullReads}
    /\ out = {}
    /\ NoFileOpen
    /\ NoChdir
    /\ ret = 0
    /\ call = NoCall
    /\ block = cbmimage_block_unused
    /\ walk = -1
    /\ fat = NoFat
    /\ written = <<>>

(* file = cbmimage_file_open_by_dir_entry(dir_entry)                       *)
FileOpenMissing ==
    /\ file = NoFile
    /\ \E start_block \in MissingStartBlocks(settings) :
          \/ /\ cbmimage_blockaccessor_create(settings, start_block).data = NULL
             /\ call' = [fn |-> "SIGSEGV", block |-> start_block]
             /\ UNCHANGED file
          \/ /\ file' = cbmimage_file_open_by_dir_entry(settings, data, start_block)
             /\ call' = [fn |-> "cbmimage_file_open_by_dir_entry", block |-> start_block]
    /\ ret' = 0
    /\ UNCHANGED <<settings, data, chain, buffer, delivered, visited, fileIdle>>

(* ret = cbmimage_file_read_next_block(file, buffer, buffer_size)          *)
FileReadMissing ==
    /\ call.fn # "SIGSEGV"
    /\ FileReadNextBlock

NextMissing == FileOpenMissing \/ FileReadMissing

SpecMissing == InitMissing /\ [][NextMissing]_vars

(* C26: opening a file from a directory entry whose start block does not   *)
(* exist on the active frame, and then reading from it, yields an error or *)
(* end-of-file result: the process is not killed, and the accessor the     *)
(* link of the current block is read through (by                           *)
(* cbmimage_chain_last_result in the open, by cbmimage_chain_advance in    *)
(* the read) is never an unset one.                                        *)
C26_MissingStartBlock ==
    /\ call.fn # "SIGSEGV"
    /\ file # NoFile => /\ file.chain.block_accessor.data # NULL
                        /\ call.fn = "cbmimage_file_read_next_block" => ret <= 0

----------------------------------------------------------------------------
(* SpecDir: a caller that opens a D64 image and enumerates its directory   *)
(* with for (e = cbmimage_dir_get_first(image);                            *)
(* cbmimage_dir_get_is_valid(e); cbmimage_dir_get_next(e)).  The image is  *)
(* zero but for the two directory blocks 18/1 and 18/4, which hold any of  *)
(* a few links and either no file or two files.  The do-while loop of      *)
(* cbmimage_i_dir_get_nonempty is taken pass by pass.                      *)

(* The passes of the loop the model follows at most.                       *)
MaxDecoded == 32

DirBlockNames == <<<<18, 1>>, <<18, 4>>>>

(* The links of a directory block: to one of the two blocks, to a block of *)
(* zeros, a terminator, a sector the track does not have.                  *)
DirLinkChoices == {<<18, 1>>, <<18, 4>>, <<18, 7>>, <<0, 255>>, <<18, 30>>}

(* The bytes of the directory block with a link and, if it has files, a    *)
(* closed PRG file that starts at 1/0 in its slots 0 and 3.                *)
DirBlockData(s, name, link, has_files) ==
    LET file_slot(n) ==
            BlockBytes(s, name[1], name[2],
                       n * CBMIMAGE_DIR_ENTRY.NEXT_ONE + CBMIMAGE_DIR_ENTRY.TYPE_OFFSET,
                       <<130, 1, 0>>)
    IN  BlockBytes(s, name[1], name[2], 0, link)
        @@ (IF has_files THEN file_slot(0) @@ file_slot(3) ELSE <<>>)

InitDir ==
    /\ settings = cbmimage_i_fileimage_create("D64")
    /\ data \in {DirBlockData(settings, DirBlockNames[1], links[1], fills[1])
                    @@ DirBlockData(settings, DirBlockNames[2], links[2], fills[2]) :
                 links \in [1..2 -> DirLinkChoices], fills \in [1..2 -> BOOLEAN]}
    /\ out = {}
    /\ NoFileOpen
    /\ NoChdir
    /\ ret = 0
    /\ call = NoCall
    /\ block = cbmimage_block_unused
    /\ walk = -1
    /\ fat = NoFat
    /\ written = <<>>

(* e = cbmimage_dir_get_first(image), up to its call of            *)
(* cbmimage_i_dir_get_nonempty.                                            *)
DirGetFirst ==
    /\ enumeration = NoDirEntry
    /\ enumeration' = [loop_detector      |-> cbmimage_loop_create(settings),
                     dir_block_accessor |-> cbmimage_blockaccessor_create(settings, settings.dir),
                     dir_block_offset   |-> 0,
                     is_empty           |-> 0,
                     entry              |-> ZeroDirEntry]
    /\ slots' = <<>>
    /\ ret' = 0
    /\ call' = [fn |-> "cbmimage_dir_get_first", block |-> settings.dir, running |-> TRUE]
    /\ UNCHANGED <<settings, data, block, walk, fatVars, out, fileVars, chdirVars, loopVars, countVars>>

(* The entry is one that cbmimage_i_dir_get_nonempty passes over.          *)
DirEntryIsUnused(dei) ==
    /\ dei.entry.type = DIR_TYPE_DEL
    /\ dei.entry.is_locked = 0
    /\ dei.entry.is_closed = 0
    /\ dei.entry.start_block.track = 0
    /\ dei.entry.name0 = 0

(* One pass of the do-while loop of cbmimage_i_dir_get_nonempty: a call of *)
(* cbmimage_i_dir_get, and the return of the function unless the entry is  *)
(* passed over.                                                            *)
DirGetPass ==
    /\ enumeration # NoDirEntry
    /\ call.running
    /\ Len(slots) < MaxDecoded
    /\ \E r \in {cbmimage_i_dir_get(settings, data, enumeration)} :
          /\ enumeration' = IF r.ret # 0 THEN [r.dei EXCEPT !.entry.is_valid = 0]
                          ELSE IF DirEntryIsUnused(r.dei) THEN r.dei
                          ELSE [r.dei EXCEPT !.entry.is_valid = 1]
          /\ slots' = IF r.ret = 0
                        THEN Append(slots, <<r.dei.dir_block_accessor.block.lba,
                                               r.dei.dir_block_offset
                                                   - CBMIMAGE_DIR_ENTRY.NEXT_ONE>>)
                        ELSE slots
          /\ ret' = r.ret
          /\ call' = [call EXCEPT !.running = (r.ret = 0 /\ DirEntryIsUnused(r.dei)),
                                  !.block = r.dei.dir_block_accessor.block]
    /\ UNCHANGED <<settings, data, block, walk, fatVars, out, fileVars, chdirVars, loopVars, countVars>>

(* ret = cbmimage_dir_get_next(e), up to its call of               *)
(* cbmimage_i_dir_get_nonempty; the caller goes on while the entry is      *)
(* valid.                                                                  *)
DirGetNext ==
    /\ enumeration # NoDirEntry
    /\ ~call.running
    /\ cbmimage_dir_get_is_valid(enumeration) # 0
    /\ call' = [fn |-> "cbmimage_dir_get_next",
                block |-> enumeration.dir_block_accessor.block, running |-> TRUE]
    /\ UNCHANGED <<settings, data, block, ret, walk, fatVars, out, fileVars, chdirVars,
                   loopVars, dirVars, countVars>>

NextDir == DirGetFirst \/ DirGetPass \/ DirGetNext

SpecDir == InitDir /\ [][NextDir]_vars

(* The caller and the library run in one thread: a call that can go on     *)
(* goes on.                                                                *)
SpecDirLive == SpecDir /\ WF_vars(NextDir)

(* C29: directory enumeration terminates for any image contents:           *)
(* dir_get_first followed by repeated dir_get_next reaches the end (the    *)
(* entry is no longer valid) after decoding each directory block at most   *)
(* once (no slot is slots twice), i.e. after at most 8 * max_lba         *)
(* entries, even when the links of the directory blocks form a cycle.      *)
C29_EnumerationTerminates ==
    /\ [](\A i, j \in 1..Len(slots) : i # j => slots[i] # slots[j])
    /\ [](Len(slots) <= 8 * cbmimage_get_max_lba(settings))
    /\ <>(/\ enumeration # NoDirEntry
          /\ ~call.running
          /\ cbmimage_dir_get_is_valid(enumeration) = 0)

(* The enumeration has ended on the link of 18/4 back to 18/1, after the   *)
(* sixteen slots of the two blocks.                                        *)
C29_Witness ==
    /\ enumeration # NoDirEntry
    /\ ~call.running
    /\ cbmimage_dir_get_is_valid(enumeration) = 0
    /\ Len(slots) = 16
    /\ enumeration.dir_block_accessor.block.lba = settings.dir.lba
    /\ ret = -1

----------------------------------------------------------------------------
(* SpecCount: a caller that opens a D64, D81 or D1M image, enters the      *)
(* native partition of the D1M image or not, and asks for the number of    *)
(* free blocks.  The image is zero but for the byte of the native          *)
(* partition that holds its last track.  The for loop of                   *)
(* cbmimage_get_blocks_free is taken pass by pass.                         *)

(* The passes of the loop the model follows at most.                       *)
MaxPasses == 257

CountImageTypes == {"D64", "D81", "D1M"}

(* The last track of the native partition, as its BAM block states it.     *)
LastTrackChoices == {1, 2, 254, 255}

InitCount ==
    /\ settings \in {cbmimage_i_fileimage_create(t) : t \in CountImageTypes}
    /\ data \in {[a \in {DnpMaxTrackAddress(1)} |-> v] : v \in LastTrackChoices}
    /\ out = {}
    /\ NoFileOpen
    /\ NoChdir
    /\ ret = 0
    /\ call = NoCall
    /\ block = cbmimage_block_unused
    /\ walk = -1
    /\ fat = NoFat
    /\ written = <<>>

(* ret = cbmimage_dir_chdir(dir_entry), dir_entry the entry of the         *)
(* partition table for a native partition at the start of the image.       *)
EnterNativePartition ==
    /\ counting = NotCounting
    /\ settings.is_partition_table # 0
    /\ next_settings = <<>>
    /\ \E dir_entry \in {PartitionTableEntry(settings, 1, 0, 1600)} :
          \E r \in {cbmimage_dir_chdir(settings, next_settings, data, dir_entry)} :
              /\ settings' = r.settings
              /\ next_settings' = r.next_settings
              /\ ret' = r.error
              /\ out' = r.out
              /\ before' = IF r.error = 0 THEN <<settings>> \o before ELSE before
              /\ entered' = IF r.error = 0 THEN <<dir_entry>> \o entered ELSE entered
              /\ call' = [fn |-> "cbmimage_dir_chdir", block |-> dir_entry.start_block]
    /\ UNCHANGED <<data, chdirIdle>>

(* cbmimage_get_blocks_free(image), up to the for loop: count and          *)
(* dir_track_location are 0, maxtrack and track are uint8_t.  ub is what   *)
(* the build makes of the unsequenced stores.                              *)
BlocksFreeEnter ==
    /\ counting = NotCounting
    /\ \E ub \in UbChoices :
          counting' = [count              |-> 0,
                       dir_track_location |-> 0,
                       maxtrack           |-> U8(cbmimage_get_max_track(settings)),
                       track              |-> 1,
                       ub                 |-> ub,
                       examined           |-> <<>>,
                       running            |-> TRUE]
    /\ call' = [fn |-> "cbmimage_get_blocks_free", block |-> cbmimage_block_unused]
    /\ out' = {}
    /\ UNCHANGED <<settings, data, ret, block, walk, fatVars, fileVars, chdirVars, loopVars,
                   dirVars>>

(* The test track <= maxtrack of the for loop and, if it holds, one pass   *)
(* of the loop with its ++track; if it does not, return count.             *)
BlocksFreePass ==
    /\ counting # NotCounting
    /\ counting.running
    /\ Len(counting.examined) < MaxPasses
    /\ IF counting.track <= counting.maxtrack
       THEN /\ counting' =
                  IF counting.track = dir_tracks_at(settings, counting.dir_track_location,
                                                    counting.ub)
                  THEN [counting EXCEPT
                          !.dir_track_location =
                              IF counting.ub.increment_kept = 1 THEN U8(@ + 1)
                              ELSE U8(@ + 1) % 2,
                          !.track = U8(@ + 1),
                          !.examined = Append(@, counting.track)]
                  ELSE [counting EXCEPT
                          !.count = U16(@ + cbmimage_i_get_bam_counter_of_track(
                                                settings, data, counting.track)),
                          !.track = U8(@ + 1),
                          !.examined = Append(@, counting.track)]
            /\ UNCHANGED ret
       ELSE /\ counting' = [counting EXCEPT !.running = FALSE]
            /\ ret' = counting.count
    /\ UNCHANGED <<settings, data, call, out, block, walk, fatVars, fileVars, chdirVars,
                   loopVars, dirVars>>

NextCount == EnterNativePartition \/ BlocksFreeEnter \/ BlocksFreePass

(* The caller and the library run in one thread: a call that can go on     *)
(* goes on.                                                                *)
SpecCount == InitCount /\ [][NextCount]_vars /\ WF_vars(NextCount)

(* C30: cbmimage_get_blocks_free terminates on every frame after           *)
(* examining each track 1..max_tracks exactly once (the loop examines the  *)
(* tracks 1, 2, ... in order and none behind max_tracks, and the call      *)
(* returns when it has examined max_tracks tracks), also on a native (DNP) *)
(* partition whose max_tracks is 255.                                      *)
C30_BlocksFreeTerminates ==
    /\ [](counting # NotCounting
            => /\ Len(counting.examined) <= cbmimage_get_max_track(settings)
               /\ \A i \in 1..Len(counting.examined) : counting.examined[i] = i)
    /\ <>(/\ counting # NotCounting
          /\ ~counting.running
          /\ Len(counting.examined) = cbmimage_get_max_track(settings))

====
